---- MODULE Spec2Model ----
(***************************************************************************)
(* Account storage adapters (package storage) and the batched transfer     *)
(* processor (package app) of test_batched_tx_tendermint.                  *)
(*                                                                         *)
(* A store instance is one adapter, selected by name when it is built      *)
(* (storage.NewStorage); `backend` records which one.  The adapters'       *)
(* struct fields keep their source names: accounts, txAccounts, inTx and   *)
(* initialized are the fields of MemoryStorage and of RedisStorage (where  *)
(* accounts is the cache), db and tx are SQLiteStorage's.  Maps are        *)
(* functions whose domain is the set of keys present.  An *Account held    *)
(* in a map is modelled by its Balance; the pointer sharing that matters   *)
(* to an operation (UpdateBalance writes through the pointer GetAccount    *)
(* returned) is spelled out in that operation.                             *)
(***************************************************************************)
EXTENDS Integers, Sequences, FiniteSets, TLC

\* Largest balance the model lets an account of a store reach.
MaxBal == 1

\* Largest value of the model's int: Go's int, two's complement, scaled down.
MaxInt == 3

\* int arithmetic wraps around.
WrapInt(x) == ((x + MaxInt + 1) % (2 * (MaxInt + 1))) - (MaxInt + 1)

\* Account ids the callers use.
Ids == {1, 2}

\* Initial balances handed to CreateAccount (a negative seed is accepted).
Seeds == (0 - 1) .. MaxBal

\* Deltas handed to UpdateBalance.
Deltas == (0 - MaxBal) .. MaxBal

Backends == {"memory", "sqlite", "redis"}

VARIABLES
  backend,      \* the adapter this store instance is
  initialized,  \* MemoryStorage / SQLiteStorage / RedisStorage .initialized
  accounts,     \* MemoryStorage.accounts; RedisStorage.accounts (the cache)
  txAccounts,   \* MemoryStorage / RedisStorage .txAccounts (the overlay)
  inTx,         \* MemoryStorage / RedisStorage .inTx
  db,           \* the accounts table of the SQLite database file
  tx,           \* SQLiteStorage.tx: the open SQL transaction and its rows
  remote,       \* the account keys held by the Redis server
  blocked,      \* the caller is parked on the adapter's lock for good
  ret,          \* the last call and what it returned
  txBase,       \* history: the committed base when the transaction was opened
  seededNegative, \* history: a CreateAccount with a negative balance succeeded
  Accounts,     \* types.State.Accounts of the application's StateStore
  userKeys,     \* TransactionProcessor.userKeys
  txResult,     \* the last call on the processor and what it returned
  reqTx,        \* the batch of the request being answered, when it is kept
  callers,      \* concurrent callers of UpdateBalance: where each is in the call
  startAccounts, \* history: the accounts the concurrent callers found
  wire          \* a transaction on its way through Serialize and ParseTransaction

storeVars == <<backend, initialized, accounts, txAccounts, inTx, db, tx, remote, blocked>>

appVars == <<Accounts, userKeys, txResult, reqTx>>

callVars == <<callers, startAccounts>>

codecVars == <<wire>>

vars == <<storeVars, ret, txBase, seededNegative, appVars, callVars, codecVars>>

\* ------------------------------------------------------------------ maps

EmptyMap == [x \in {} |-> 0]

Has(m, k) == k \in DOMAIN m

Put(m, k, v) == [x \in (DOMAIN m) \cup {k} |-> IF x = k THEN v ELSE m[x]]

\* Entries of m2 written over m1 (for id, acc := range m2 { m1[id] = acc }).
Merge(m1, m2) ==
  [x \in (DOMAIN m1) \cup (DOMAIN m2) |-> IF x \in DOMAIN m2 THEN m2[x] ELSE m1[x]]

Entries(m) == {<<k, m[k]>> : k \in DOMAIN m}

\* Every map with keys among ks and values among vs.
Maps(ks, vs) == UNION {[d -> vs] : d \in SUBSET ks}

\* ------------------------------------------------------------ store record

\* SQLiteStorage.tx == nil
NoTx == [active |-> FALSE, rows |-> EmptyMap]

\* The store as a call finds it.  A call maps such a record to the record it
\* leaves: the fields, its error (err) and its results: val, the Balance of the
\* account or the balance returned; ref, the map whose object the returned
\* *Account is ("tx", "base", or "fresh" for one no map holds); found,
\* AccountExists's answer; all, the entries GetAllAccounts returns.
Cur ==
  [initialized |-> initialized, accounts |-> accounts, txAccounts |-> txAccounts,
   inTx |-> inTx, db |-> db, tx |-> tx, remote |-> remote, blocked |-> blocked,
   err |-> "ok", val |-> 0, ref |-> "none", found |-> FALSE, all |-> {}]

\* s with the results of an earlier call cleared.
Enter(s) == [s EXCEPT !.err = "ok", !.val = 0, !.ref = "none", !.found = FALSE, !.all = {}]

\* The call returns err; the fields stay as s has them.
Fail(s, err) == [Enter(s) EXCEPT !.err = err]

\* ---------------------------------------------------------- MemoryStorage

\* Mutant: an initialized store is initialized again.
MemInitialize_Again(s) ==
  [Enter(s) EXCEPT !.accounts = EmptyMap, !.txAccounts = EmptyMap, !.initialized = TRUE]

MemInitialize(s) ==
  IF s.initialized THEN Fail(s, "AlreadyInitialized")
  ELSE [Enter(s) EXCEPT !.accounts = EmptyMap, !.txAccounts = EmptyMap, !.initialized = TRUE]

MemClose(s) ==
  IF ~s.initialized THEN Fail(s, "NotInitialized")
  ELSE [Enter(s) EXCEPT !.accounts = EmptyMap, !.txAccounts = EmptyMap, !.initialized = FALSE]

\* Mutant: no copy on first access, the base's own object is handed out.
MemGetAccount_NoCopy(s, id) ==
  IF ~s.initialized THEN Fail(s, "NotInitialized")
  ELSE IF s.inTx /\ Has(s.txAccounts, id)
    THEN [Enter(s) EXCEPT !.val = s.txAccounts[id], !.ref = "tx"]
  ELSE IF Has(s.accounts, id)
    THEN [Enter(s) EXCEPT !.val = s.accounts[id], !.ref = "base"]
  ELSE Fail(s, "AccountNotFound")

MemGetAccount(s, id) ==
  IF ~s.initialized THEN Fail(s, "NotInitialized")
  ELSE IF s.inTx /\ Has(s.txAccounts, id)
    THEN [Enter(s) EXCEPT !.val = s.txAccounts[id], !.ref = "tx"]
  ELSE IF Has(s.accounts, id)
    THEN IF s.inTx
      THEN [Enter(s) EXCEPT !.txAccounts = Put(s.txAccounts, id, s.accounts[id]),
                            !.val = s.accounts[id], !.ref = "tx"]
      ELSE [Enter(s) EXCEPT !.val = s.accounts[id], !.ref = "base"]
  ELSE Fail(s, "AccountNotFound")

\* Mutant: the overlay is not consulted.
MemAccountExists_BaseOnly(s, id) ==
  IF ~s.initialized THEN Fail(s, "NotInitialized")
  ELSE [Enter(s) EXCEPT !.found = Has(s.accounts, id)]

MemAccountExists(s, id) ==
  IF ~s.initialized THEN Fail(s, "NotInitialized")
  ELSE IF s.inTx /\ Has(s.txAccounts, id) THEN [Enter(s) EXCEPT !.found = TRUE]
  ELSE [Enter(s) EXCEPT !.found = Has(s.accounts, id)]

MemCreateAccount(s, id, initialBalance) ==
  IF ~s.initialized THEN Fail(s, "NotInitialized")
  ELSE IF s.inTx /\ Has(s.txAccounts, id) THEN Fail(s, "AccountAlreadyExists")
  ELSE IF Has(s.accounts, id) /\ ~s.inTx THEN Fail(s, "AccountAlreadyExists")
  ELSE IF s.inTx
    THEN [Enter(s) EXCEPT !.txAccounts = Put(s.txAccounts, id, initialBalance)]
    ELSE [Enter(s) EXCEPT !.accounts = Put(s.accounts, id, initialBalance)]

\* acc.Balance = v through the pointer a GetAccount returned with ref.
WriteThrough(s, ref, id, v) ==
  IF ref = "tx" THEN [s EXCEPT !.txAccounts = Put(s.txAccounts, id, v)]
  ELSE IF ref = "base" THEN [s EXCEPT !.accounts = Put(s.accounts, id, v)]
  ELSE s

\* Mutant: the check against a negative balance is missing.
MemUpdateBalance_NoCheck(s, id, delta) ==
  IF ~s.initialized THEN Fail(s, "NotInitialized")
  ELSE LET g == MemGetAccount(s, id)
       IN IF g.err # "ok"
            THEN IF g.err = "AccountNotFound" /\ delta > 0
                   THEN MemCreateAccount(g, id, delta)
                   ELSE Fail(g, g.err)
          ELSE Enter(WriteThrough(g, g.ref, id, g.val + delta))

MemUpdateBalance(s, id, delta) ==
  IF ~s.initialized THEN Fail(s, "NotInitialized")
  ELSE LET g == MemGetAccount(s, id)
           newBalance == g.val + delta
       IN IF g.err # "ok"
            THEN IF g.err = "AccountNotFound" /\ delta > 0
                   THEN MemCreateAccount(g, id, delta)
                   ELSE Fail(g, g.err)
          ELSE IF newBalance < 0 THEN Fail(g, "InsufficientBalance")
          ELSE Enter(WriteThrough(g, g.ref, id, newBalance))

\* Mutant: Commit throws the overlay away.
MemCommit_DropsOverlay(s) ==
  IF ~s.initialized THEN Fail(s, "NotInitialized")
  ELSE IF ~s.inTx THEN Enter(s)
  ELSE [Enter(s) EXCEPT !.txAccounts = EmptyMap, !.inTx = FALSE]

\* Mutant: the initialized check is missing.
MemCommit_NoInitCheck(s) ==
  IF ~s.inTx THEN Enter(s)
  ELSE [Enter(s) EXCEPT !.accounts = Merge(s.accounts, s.txAccounts),
                        !.txAccounts = EmptyMap, !.inTx = FALSE]

MemCommit(s) ==
  IF ~s.initialized THEN Fail(s, "NotInitialized")
  ELSE IF ~s.inTx THEN Enter(s)
  ELSE [Enter(s) EXCEPT !.accounts = Merge(s.accounts, s.txAccounts),
                        !.txAccounts = EmptyMap, !.inTx = FALSE]

MemRollback(s) ==
  IF ~s.initialized THEN Fail(s, "NotInitialized")
  ELSE IF ~s.inTx THEN Enter(s)
  ELSE [Enter(s) EXCEPT !.txAccounts = EmptyMap, !.inTx = FALSE]

\* Mutant: BeginTransaction throws an open overlay away.
MemBeginTransaction_Discards(s) ==
  IF ~s.initialized THEN Fail(s, "NotInitialized")
  ELSE [Enter(s) EXCEPT !.txAccounts = EmptyMap, !.inTx = TRUE]

MemBeginTransaction(s) ==
  IF ~s.initialized THEN Fail(s, "NotInitialized")
  ELSE [Enter(s) EXCEPT
          !.accounts = IF s.inTx THEN Merge(s.accounts, s.txAccounts) ELSE s.accounts,
          !.txAccounts = EmptyMap, !.inTx = TRUE]

MemGetBalance(s, id) ==
  LET g == MemGetAccount(s, id)
  IN IF g.err # "ok" THEN Fail(g, g.err) ELSE [g EXCEPT !.ref = "none"]

\* Mutant: the overlay's accounts are appended to the base's.
MemGetAllAccounts_Appends(s) ==
  IF ~s.initialized THEN Fail(s, "NotInitialized")
  ELSE IF s.inTx THEN [Enter(s) EXCEPT !.all = Entries(s.accounts) \cup Entries(s.txAccounts)]
  ELSE [Enter(s) EXCEPT !.all = Entries(s.accounts)]

MemGetAllAccounts(s) ==
  IF ~s.initialized THEN Fail(s, "NotInitialized")
  ELSE IF s.inTx THEN [Enter(s) EXCEPT !.all = Entries(Merge(s.accounts, s.txAccounts))]
  ELSE [Enter(s) EXCEPT !.all = Entries(s.accounts)]

\* ---------------------------------------------------------- SQLiteStorage
\* The database engine is taken to answer every statement: no I/O failure.

\* The rows the statements of s see: the open transaction's, or the file's.
SqlRows(s) == IF s.tx.active THEN s.tx.rows ELSE s.db

\* An INSERT or UPDATE through the open transaction, or straight to the file.
SqlExec(s, rows) == IF s.tx.active THEN [s EXCEPT !.tx.rows = rows] ELSE [s EXCEPT !.db = rows]

SqlInitialize(s) ==
  IF s.initialized THEN Fail(s, "AlreadyInitialized")
  ELSE [Enter(s) EXCEPT !.initialized = TRUE]

\* Mutant: Close commits the open transaction.
SqlClose_Commits(s) ==
  IF ~s.initialized THEN Fail(s, "NotInitialized")
  ELSE [Enter(s) EXCEPT !.db = SqlRows(s), !.tx = NoTx, !.initialized = FALSE]

SqlClose(s) ==
  IF ~s.initialized THEN Fail(s, "NotInitialized")
  ELSE [Enter(s) EXCEPT !.tx = NoTx, !.initialized = FALSE]

SqlGetAccount(s, id) ==
  IF ~s.initialized THEN Fail(s, "NotInitialized")
  ELSE IF ~Has(SqlRows(s), id) THEN Fail(s, "AccountNotFound")
  ELSE [Enter(s) EXCEPT !.val = SqlRows(s)[id], !.ref = "fresh"]

SqlAccountExists(s, id) ==
  IF ~s.initialized THEN Fail(s, "NotInitialized")
  ELSE [Enter(s) EXCEPT !.found = Has(SqlRows(s), id)]

SqlCreateAccount(s, id, initialBalance) ==
  IF ~s.initialized THEN Fail(s, "NotInitialized")
  ELSE LET e == SqlAccountExists(s, id)
       IN IF e.err # "ok" THEN Fail(e, e.err)
          ELSE IF e.found THEN Fail(e, "AccountAlreadyExists")
          ELSE Enter(SqlExec(e, Put(SqlRows(e), id, initialBalance)))

\* Mutant: delta < 0 where the code has delta <= 0.
SqlUpdateBalance_ZeroCreates(s, id, delta) ==
  IF ~s.initialized THEN Fail(s, "NotInitialized")
  ELSE LET e == SqlAccountExists(s, id)
           g == SqlGetAccount(e, id)
           newBalance == g.val + delta
       IN IF e.err # "ok" THEN Fail(e, e.err)
          ELSE IF ~e.found
            THEN IF delta < 0 THEN Fail(e, "AccountNotFound")
                 ELSE SqlCreateAccount(e, id, delta)
          ELSE IF g.err # "ok" THEN Fail(g, g.err)
          ELSE IF newBalance < 0 THEN Fail(g, "InsufficientBalance")
          ELSE Enter(SqlExec(g, Put(SqlRows(g), id, newBalance)))

SqlUpdateBalance(s, id, delta) ==
  IF ~s.initialized THEN Fail(s, "NotInitialized")
  ELSE LET e == SqlAccountExists(s, id)
           g == SqlGetAccount(e, id)
           newBalance == g.val + delta
       IN IF e.err # "ok" THEN Fail(e, e.err)
          ELSE IF ~e.found
            THEN IF delta <= 0 THEN Fail(e, "AccountNotFound")
                 ELSE SqlCreateAccount(e, id, delta)
          ELSE IF g.err # "ok" THEN Fail(g, g.err)
          ELSE IF newBalance < 0 THEN Fail(g, "InsufficientBalance")
          ELSE Enter(SqlExec(g, Put(SqlRows(g), id, newBalance)))

\* Mutant: Commit without a transaction is an error.
SqlCommit_NoTxFails(s) ==
  IF ~s.initialized THEN Fail(s, "NotInitialized")
  ELSE IF ~s.tx.active THEN Fail(s, "TransactionFailed")
  ELSE [Enter(s) EXCEPT !.db = s.tx.rows, !.tx = NoTx]

SqlCommit(s) ==
  IF ~s.initialized THEN Fail(s, "NotInitialized")
  ELSE IF ~s.tx.active THEN Enter(s)
  ELSE [Enter(s) EXCEPT !.db = s.tx.rows, !.tx = NoTx]

\* UpdateBalance when Exec of the UPDATE returns an error: nothing is
\* written and an open transaction stays open.
SqlUpdateBalanceExecFails(s, id, delta) ==
  LET g == SqlGetAccount(s, id)
  IN IF s.initialized /\ g.err = "ok" /\ g.val + delta >= 0
       THEN Fail(g, "WriteFailed")
       ELSE SqlUpdateBalance(s, id, delta)

\* Commit when tx.Commit returns an error: nothing reaches the file and
\* s.tx is not cleared.
SqlCommitFails(s) ==
  IF s.initialized /\ s.tx.active THEN Fail(s, "TransactionFailed") ELSE SqlCommit(s)

SqlRollback(s) ==
  IF ~s.initialized THEN Fail(s, "NotInitialized")
  ELSE IF ~s.tx.active THEN Enter(s)
  ELSE [Enter(s) EXCEPT !.tx = NoTx]

SqlBeginTransaction(s) ==
  IF ~s.initialized THEN Fail(s, "NotInitialized")
  ELSE LET c == IF s.tx.active THEN SqlCommit(s) ELSE s
       IN IF c.err # "ok" THEN Fail(c, c.err)
          ELSE [Enter(c) EXCEPT !.tx = [active |-> TRUE, rows |-> c.db]]

SqlGetBalance(s, id) ==
  LET g == SqlGetAccount(s, id)
  IN IF g.err # "ok" THEN Fail(g, g.err) ELSE [g EXCEPT !.ref = "none"]

SqlGetAllAccounts(s) ==
  IF ~s.initialized THEN Fail(s, "NotInitialized")
  ELSE [Enter(s) EXCEPT !.all = Entries(SqlRows(s))]

\* ----------------------------------------------------------- RedisStorage
\* The Redis server is taken to answer every command.

\* The caller never returns: it waits for a lock that is not released.
Block(s) == [Enter(s) EXCEPT !.blocked = TRUE, !.err = "blocked"]

RedisInitialize(s) ==
  IF s.initialized THEN Fail(s, "AlreadyInitialized")
  ELSE [Enter(s) EXCEPT !.initialized = TRUE]

RedisClose(s) ==
  IF ~s.initialized THEN Fail(s, "NotInitialized")
  ELSE [Enter(s) EXCEPT !.txAccounts = EmptyMap, !.inTx = FALSE, !.initialized = FALSE]

\* Mutant: a cached account is handed out as it is, also in a transaction.
RedisGetAccount_CachedNoCopy(s, id) ==
  IF ~s.initialized THEN Fail(s, "NotInitialized")
  ELSE IF s.inTx /\ Has(s.txAccounts, id)
    THEN [Enter(s) EXCEPT !.val = s.txAccounts[id], !.ref = "tx"]
  ELSE IF Has(s.accounts, id)
    THEN [Enter(s) EXCEPT !.val = s.accounts[id], !.ref = "base"]
  ELSE IF ~Has(s.remote, id) THEN Fail(s, "AccountNotFound")
  ELSE IF s.inTx
    THEN [Enter(s) EXCEPT !.accounts = Put(s.accounts, id, s.remote[id]),
                          !.txAccounts = Put(s.txAccounts, id, s.remote[id]),
                          !.val = s.remote[id], !.ref = "tx"]
    ELSE [Enter(s) EXCEPT !.accounts = Put(s.accounts, id, s.remote[id]),
                          !.val = s.remote[id], !.ref = "base"]

RedisGetAccount(s, id) ==
  IF ~s.initialized THEN Fail(s, "NotInitialized")
  ELSE IF s.inTx /\ Has(s.txAccounts, id)
    THEN [Enter(s) EXCEPT !.val = s.txAccounts[id], !.ref = "tx"]
  ELSE IF Has(s.accounts, id)
    THEN IF s.inTx
      THEN [Enter(s) EXCEPT !.txAccounts = Put(s.txAccounts, id, s.accounts[id]),
                            !.val = s.accounts[id], !.ref = "tx"]
      ELSE [Enter(s) EXCEPT !.val = s.accounts[id], !.ref = "base"]
  ELSE IF ~Has(s.remote, id) THEN Fail(s, "AccountNotFound")
  ELSE IF s.inTx
    THEN [Enter(s) EXCEPT !.accounts = Put(s.accounts, id, s.remote[id]),
                          !.txAccounts = Put(s.txAccounts, id, s.remote[id]),
                          !.val = s.remote[id], !.ref = "tx"]
    ELSE [Enter(s) EXCEPT !.accounts = Put(s.accounts, id, s.remote[id]),
                          !.val = s.remote[id], !.ref = "base"]

RedisAccountExists(s, id) ==
  IF ~s.initialized THEN Fail(s, "NotInitialized")
  ELSE IF s.inTx /\ Has(s.txAccounts, id) THEN [Enter(s) EXCEPT !.found = TRUE]
  ELSE IF Has(s.accounts, id) THEN [Enter(s) EXCEPT !.found = TRUE]
  ELSE [Enter(s) EXCEPT !.found = Has(s.remote, id)]

\* CreateAccount takes the exclusive lock and, still holding it, calls
\* AccountExists, whose RLock on the same RWMutex is never granted.
RedisCreateAccount(s, id, initialBalance) ==
  IF ~s.initialized THEN Fail(s, "NotInitialized")
  ELSE Block(s)

\* Mutant: the balance is written through the pointer before the check.
RedisUpdateBalance_WriteFirst(s, id, delta) ==
  IF ~s.initialized THEN Fail(s, "NotInitialized")
  ELSE LET g == RedisGetAccount(s, id)
           newBalance == g.val + delta
           w == WriteThrough(g, g.ref, id, newBalance)
       IN IF g.err # "ok"
            THEN IF g.err = "AccountNotFound" /\ delta > 0
                   THEN RedisCreateAccount(g, id, delta)
                   ELSE Fail(g, g.err)
          ELSE IF newBalance < 0 THEN Fail(w, "InsufficientBalance")
          ELSE IF w.inTx THEN [Enter(w) EXCEPT !.txAccounts = Put(w.txAccounts, id, newBalance)]
          ELSE [Enter(w) EXCEPT !.remote = Put(w.remote, id, newBalance),
                                !.accounts = Put(w.accounts, id, newBalance)]

RedisUpdateBalance(s, id, delta) ==
  IF ~s.initialized THEN Fail(s, "NotInitialized")
  ELSE LET g == RedisGetAccount(s, id)
           newBalance == g.val + delta
           w == WriteThrough(g, g.ref, id, newBalance)
       IN IF g.err # "ok"
            THEN IF g.err = "AccountNotFound" /\ delta > 0
                   THEN RedisCreateAccount(g, id, delta)
                   ELSE Fail(g, g.err)
          ELSE IF newBalance < 0 THEN Fail(g, "InsufficientBalance")
          ELSE IF w.inTx THEN [Enter(w) EXCEPT !.txAccounts = Put(w.txAccounts, id, newBalance)]
          ELSE [Enter(w) EXCEPT !.remote = Put(w.remote, id, newBalance),
                                !.accounts = Put(w.accounts, id, newBalance)]

\* UpdateBalance when the SET is refused or lost: the balance is already
\* written through the pointer GetAccount returned, and the error is returned
\* before the cache entry is stored again.
RedisUpdateBalanceSetFails(s, id, delta) ==
  LET g == RedisGetAccount(s, id)
      newBalance == g.val + delta
  IN IF s.initialized /\ g.err = "ok" /\ newBalance >= 0 /\ ~g.inTx
       THEN Fail(WriteThrough(g, g.ref, id, newBalance), "WriteFailed")
       ELSE RedisUpdateBalance(s, id, delta)

RedisCommit(s) ==
  IF ~s.initialized THEN Fail(s, "NotInitialized")
  ELSE IF ~s.inTx THEN Enter(s)
  ELSE [Enter(s) EXCEPT !.remote = Merge(s.remote, s.txAccounts),
                        !.accounts = Merge(s.accounts, s.txAccounts),
                        !.txAccounts = EmptyMap, !.inTx = FALSE]

\* Commit when Exec of the pipeline returns an error, the server having
\* executed the SETs of the entries done: the cache was given every overlay
\* entry while the pipeline was filled, and the overlay and inTx stay.  An
\* empty pipeline sends nothing and cannot fail.
RedisCommitExecFails(s, done) ==
  IF s.initialized /\ s.inTx /\ s.txAccounts # EmptyMap
    THEN [Fail(s, "WriteFailed") EXCEPT
            !.remote = Merge(s.remote, [id \in done |-> s.txAccounts[id]]),
            !.accounts = Merge(s.accounts, s.txAccounts)]
    ELSE RedisCommit(s)

RedisRollback(s) ==
  IF ~s.initialized THEN Fail(s, "NotInitialized")
  ELSE IF ~s.inTx THEN Enter(s)
  ELSE [Enter(s) EXCEPT !.txAccounts = EmptyMap, !.inTx = FALSE]

RedisBeginTransaction(s) ==
  IF ~s.initialized THEN Fail(s, "NotInitialized")
  ELSE [Enter(s) EXCEPT
          !.accounts = IF s.inTx THEN Merge(s.accounts, s.txAccounts) ELSE s.accounts,
          !.txAccounts = EmptyMap, !.inTx = TRUE]

RedisGetBalance(s, id) ==
  LET g == RedisGetAccount(s, id)
  IN IF g.err # "ok" THEN Fail(g, g.err) ELSE [g EXCEPT !.ref = "none"]

RedisGetAllAccounts(s) ==
  IF ~s.initialized THEN Fail(s, "NotInitialized")
  ELSE IF s.remote = EmptyMap THEN Enter(s)
  ELSE IF s.inTx THEN [Enter(s) EXCEPT !.all = Entries(Merge(s.remote, s.txAccounts))]
  ELSE [Enter(s) EXCEPT !.all = Entries(s.remote)]

\* ----------------------------------------------------- TigerBeetleStorage
\* remote[id] is what the ledger holds for account id: credits posted less
\* debits posted, a 128-bit figure that does not wrap here.  The ledger is
\* taken to accept every account and transfer the adapter submits.
\* Initialize, Close, Rollback and BeginTransaction are, statement for
\* statement, those of RedisStorage with the client of the other service.

\* uint64(x) of an int x.
Uint64(x) == x % (2 * (MaxInt + 1))

\* The ID of the transfer that changes the balance of account id.
TransferID(id) == Uint64(id)

TbGetAccount(s, id) ==
  IF ~s.initialized THEN Fail(s, "NotInitialized")
  ELSE IF s.inTx /\ Has(s.txAccounts, id)
    THEN [Enter(s) EXCEPT !.val = s.txAccounts[id], !.ref = "tx"]
  ELSE IF Has(s.accounts, id)
    THEN IF s.inTx
      THEN [Enter(s) EXCEPT !.txAccounts = Put(s.txAccounts, id, s.accounts[id]),
                            !.val = s.accounts[id], !.ref = "tx"]
      ELSE [Enter(s) EXCEPT !.val = s.accounts[id], !.ref = "base"]
  ELSE IF ~Has(s.remote, id) THEN Fail(s, "AccountNotFound")
  ELSE LET balance == WrapInt(s.remote[id])
       IN IF s.inTx
            THEN [Enter(s) EXCEPT !.accounts = Put(s.accounts, id, balance),
                                  !.txAccounts = Put(s.txAccounts, id, balance),
                                  !.val = balance, !.ref = "tx"]
            ELSE [Enter(s) EXCEPT !.accounts = Put(s.accounts, id, balance),
                                  !.val = balance, !.ref = "base"]

TbAccountExists(s, id) ==
  IF ~s.initialized THEN Fail(s, "NotInitialized")
  ELSE IF s.inTx /\ Has(s.txAccounts, id) THEN [Enter(s) EXCEPT !.found = TRUE]
  ELSE IF Has(s.accounts, id) THEN [Enter(s) EXCEPT !.found = TRUE]
  ELSE [Enter(s) EXCEPT !.found = Has(s.remote, id)]

\* As in RedisStorage, CreateAccount calls AccountExists while it holds the
\* exclusive lock.
TbCreateAccount(s, id, initialBalance) ==
  IF ~s.initialized THEN Fail(s, "NotInitialized")
  ELSE Block(s)

\* Outside a transaction the balance is written through the pointer
\* GetAccount returned and a transfer of uint64(delta) is posted to the
\* credit of the account, the debit going to account 0.
TbUpdateBalance(s, id, delta) ==
  IF ~s.initialized THEN Fail(s, "NotInitialized")
  ELSE LET g == TbGetAccount(s, id)
           newBalance == WrapInt(g.val + delta)
           w == WriteThrough(g, g.ref, id, newBalance)
       IN IF g.err # "ok"
            THEN IF g.err = "AccountNotFound" /\ delta > 0
                   THEN TbCreateAccount(g, id, delta)
                   ELSE Fail(g, g.err)
          ELSE IF newBalance < 0 THEN Fail(g, "InsufficientBalance")
          ELSE IF w.inTx THEN [Enter(w) EXCEPT !.txAccounts = Put(w.txAccounts, id, newBalance)]
          ELSE [Enter(w) EXCEPT !.remote = Put(w.remote, id, w.remote[id] + Uint64(delta)),
                                !.accounts = Put(w.accounts, id, newBalance)]

\* For every overlay entry: an account the cache does not hold is created
\* in the ledger with the entry's balance as credits posted; for one it
\* holds, the difference to the cached balance, when not zero, is posted as
\* a transfer to the credit of the account.
TbCommit(s) ==
  IF ~s.initialized THEN Fail(s, "NotInitialized")
  ELSE IF ~s.inTx THEN Enter(s)
  ELSE [Enter(s) EXCEPT
          !.remote = [id \in DOMAIN s.remote \cup DOMAIN s.txAccounts |->
                        IF ~Has(s.txAccounts, id) THEN s.remote[id]
                        ELSE IF ~Has(s.accounts, id) THEN Uint64(s.txAccounts[id])
                        ELSE s.remote[id] + Uint64(s.txAccounts[id] - s.accounts[id])],
          !.accounts = Merge(s.accounts, s.txAccounts),
          !.txAccounts = EmptyMap, !.inTx = FALSE]

\* UpdateBalance when CreateTransfers returns an error or a result: the
\* balance is already written through the pointer GetAccount returned.
TbUpdateBalanceTransferFails(s, id, delta) ==
  LET g == TbGetAccount(s, id)
      newBalance == WrapInt(g.val + delta)
  IN IF s.initialized /\ g.err = "ok" /\ newBalance >= 0 /\ ~g.inTx
       THEN Fail(WriteThrough(g, g.ref, id, newBalance), "WriteFailed")
       ELSE TbUpdateBalance(s, id, delta)

\* An overlay entry of s for which Commit submits an account or a transfer.
TbSubmits(s, id) ==
  Has(s.txAccounts, id) /\ (~Has(s.accounts, id) \/ s.txAccounts[id] # s.accounts[id])

\* Mutant: the cache is given the entries only when the whole loop is through.
TbCommitFails_CacheAtEnd(s, done) ==
  IF /\ s.initialized /\ s.inTx /\ done \subseteq DOMAIN s.txAccounts
     /\ \E e \in DOMAIN s.txAccounts \ done : TbSubmits(s, e)
    THEN [Fail(s, "WriteFailed") EXCEPT
            !.remote = [id \in DOMAIN s.remote \cup done |->
                          IF id \notin done THEN s.remote[id]
                          ELSE IF ~Has(s.accounts, id) THEN Uint64(s.txAccounts[id])
                          ELSE s.remote[id] + Uint64(s.txAccounts[id] - s.accounts[id])]]
    ELSE TbCommit(s)

\* Commit when the ledger fails a request partway through the overlay, the
\* loop having gone through the entries done, in the order the map yielded
\* them: their accounts and transfers are in the ledger and the cache holds
\* them; the overlay and inTx stay.
TbCommitFails(s, done) ==
  IF /\ s.initialized /\ s.inTx /\ done \subseteq DOMAIN s.txAccounts
     /\ \E e \in DOMAIN s.txAccounts \ done : TbSubmits(s, e)
    THEN [Fail(s, "WriteFailed") EXCEPT
            !.remote = [id \in DOMAIN s.remote \cup done |->
                          IF id \notin done THEN s.remote[id]
                          ELSE IF ~Has(s.accounts, id) THEN Uint64(s.txAccounts[id])
                          ELSE s.remote[id] + Uint64(s.txAccounts[id] - s.accounts[id])],
            !.accounts = Merge(s.accounts, [id \in done |-> s.txAccounts[id]])]
    ELSE TbCommit(s)

TbGetBalance(s, id) ==
  LET g == TbGetAccount(s, id)
  IN IF g.err # "ok" THEN Fail(g, g.err) ELSE [g EXCEPT !.ref = "none"]

\* The ledger cannot list its accounts: the cached accounts are returned,
\* with the overlay's entries over them in a transaction.
TbGetAllAccounts(s) ==
  IF ~s.initialized THEN Fail(s, "NotInitialized")
  ELSE IF s.inTx THEN [Enter(s) EXCEPT !.all = Entries(Merge(s.accounts, s.txAccounts))]
  ELSE [Enter(s) EXCEPT !.all = Entries(s.accounts)]

\* ------------------------------------------------ the Storage interface

StorageInitialize(s) ==
  CASE backend = "memory" -> MemInitialize(s)
    [] backend = "sqlite" -> SqlInitialize(s)
    [] backend = "redis" -> RedisInitialize(s)
    [] backend = "tigerbeetle" -> RedisInitialize(s)

StorageClose(s) ==
  CASE backend = "memory" -> MemClose(s)
    [] backend = "sqlite" -> SqlClose(s)
    [] backend = "redis" -> RedisClose(s)
    [] backend = "tigerbeetle" -> RedisClose(s)

StorageGetAccount(s, id) ==
  CASE backend = "memory" -> MemGetAccount(s, id)
    [] backend = "sqlite" -> SqlGetAccount(s, id)
    [] backend = "redis" -> RedisGetAccount(s, id)
    [] backend = "tigerbeetle" -> TbGetAccount(s, id)

StorageAccountExists(s, id) ==
  CASE backend = "memory" -> MemAccountExists(s, id)
    [] backend = "sqlite" -> SqlAccountExists(s, id)
    [] backend = "redis" -> RedisAccountExists(s, id)
    [] backend = "tigerbeetle" -> TbAccountExists(s, id)

StorageUpdateBalance(s, id, delta) ==
  CASE backend = "memory" -> MemUpdateBalance(s, id, delta)
    [] backend = "sqlite" -> SqlUpdateBalance(s, id, delta)
    [] backend = "redis" -> RedisUpdateBalance(s, id, delta)
    [] backend = "tigerbeetle" -> TbUpdateBalance(s, id, delta)

StorageCreateAccount(s, id, initialBalance) ==
  CASE backend = "memory" -> MemCreateAccount(s, id, initialBalance)
    [] backend = "sqlite" -> SqlCreateAccount(s, id, initialBalance)
    [] backend = "redis" -> RedisCreateAccount(s, id, initialBalance)
    [] backend = "tigerbeetle" -> TbCreateAccount(s, id, initialBalance)

StorageCommit(s) ==
  CASE backend = "memory" -> MemCommit(s)
    [] backend = "sqlite" -> SqlCommit(s)
    [] backend = "redis" -> RedisCommit(s)
    [] backend = "tigerbeetle" -> TbCommit(s)

StorageRollback(s) ==
  CASE backend = "memory" -> MemRollback(s)
    [] backend = "sqlite" -> SqlRollback(s)
    [] backend = "redis" -> RedisRollback(s)
    [] backend = "tigerbeetle" -> RedisRollback(s)

StorageBeginTransaction(s) ==
  CASE backend = "memory" -> MemBeginTransaction(s)
    [] backend = "sqlite" -> SqlBeginTransaction(s)
    [] backend = "redis" -> RedisBeginTransaction(s)
    [] backend = "tigerbeetle" -> RedisBeginTransaction(s)

StorageGetBalance(s, id) ==
  CASE backend = "memory" -> MemGetBalance(s, id)
    [] backend = "sqlite" -> SqlGetBalance(s, id)
    [] backend = "redis" -> RedisGetBalance(s, id)
    [] backend = "tigerbeetle" -> TbGetBalance(s, id)

StorageGetAllAccounts(s) ==
  CASE backend = "memory" -> MemGetAllAccounts(s)
    [] backend = "sqlite" -> SqlGetAllAccounts(s)
    [] backend = "redis" -> RedisGetAllAccounts(s)
    [] backend = "tigerbeetle" -> TbGetAllAccounts(s)

\* ------------------------------------------------------------- the calls

\* What a caller of s observes of account id: whether AccountExists reports
\* it, and the balance GetBalance returns (0 with its error).
Observe(s, id) ==
  LET e == StorageAccountExists(s, id)
      g == StorageGetBalance(s, id)
  IN [found |-> e.err = "ok" /\ e.found, err |-> g.err, val |-> g.val]

NoObs == [found |-> FALSE, err |-> "none", val |-> 0]

\* Whether s has a transaction open.
TxOpen(s) == IF backend = "sqlite" THEN s.tx.active ELSE s.inTx

\* The last call on the store: its arguments, what it returned, and of the
\* store when the call was made: pre, what was observable of account id, and
\* open, whether a transaction was open.
Ret(op, id, arg, o) ==
  [op |-> op, id |-> id, arg |-> arg, err |-> o.err, val |-> o.val, found |-> o.found,
   all |-> o.all, pre |-> IF id \in Ids THEN Observe(Cur, id) ELSE NoObs,
   open |-> TxOpen(Cur)]

NoRet ==
  [op |-> "none", id |-> 0, arg |-> 0, err |-> "ok", val |-> 0, found |-> FALSE, all |-> {},
   pre |-> NoObs, open |-> FALSE]

\* The committed base of the store s: what outlives the overlay.
Base(s) ==
  CASE backend = "memory" -> s.accounts
    [] backend = "sqlite" -> s.db
    [] backend \in {"redis", "tigerbeetle"} -> s.remote

\* The calls that neither open nor close a transaction.
TxOps == {"CreateAccount", "UpdateBalance", "GetAccount", "GetBalance", "AccountExists",
          "GetAllAccounts"}

NoTxBase ==
  [phase |-> "none", base |-> EmptyMap, dirty |-> FALSE, nested |-> FALSE, changed |-> FALSE]

\* History of the last BeginTransaction of a MemoryStorage: phase "open" from
\* that call for as long as only TxOps are called, "rolledback" right after
\* the Rollback that ends such a run, "committed" right after the Commit that
\* ends it (the base is then forgotten); base is the committed base
\* BeginTransaction left; nested, whether a transaction was open at that
\* call; changed, whether the call left another committed base than it
\* found; dirty, whether a CreateAccount or UpdateBalance succeeded since.
NextTxBase(op, o) ==
  IF backend # "memory" THEN NoTxBase
  ELSE IF op = "BeginTransaction" /\ o.err = "ok"
    THEN [phase |-> "open", base |-> Base(o), dirty |-> FALSE,
          nested |-> TxOpen(Cur), changed |-> Base(o) # Base(Cur)]
  ELSE IF txBase.phase = "open" /\ op \in TxOps /\ o.err # "blocked"
    THEN [txBase EXCEPT !.dirty = @ \/ (op \in {"CreateAccount", "UpdateBalance"} /\ o.err = "ok")]
  ELSE IF txBase.phase = "open" /\ op = "Rollback" /\ o.err = "ok"
    THEN [txBase EXCEPT !.phase = "rolledback"]
  ELSE IF txBase.phase = "open" /\ op = "Commit" /\ o.err = "ok"
    THEN [NoTxBase EXCEPT !.phase = "committed", !.dirty = txBase.dirty]
  ELSE NoTxBase

\* No balance is above the model's cap.
Capped(m) == \A k \in DOMAIN m : m[k] <= MaxBal

\* No figure of the ledger is above the cap by more than the range of uint64.
LedgerCapped(m) == \A k \in DOMAIN m : m[k] <= MaxBal + 2 * (MaxInt + 1)

InRange(o) ==
  /\ Capped(o.accounts)
  /\ Capped(o.txAccounts)
  /\ Capped(o.db)
  /\ Capped(o.tx.rows)
  /\ IF backend = "tigerbeetle" THEN LedgerCapped(o.remote) ELSE Capped(o.remote)

\* The call op(id, arg) ends with outcome o: the store and the record of
\* the call.
Answer(op, id, arg, o) ==
  /\ ~blocked
  /\ InRange(o)
  /\ initialized' = o.initialized
  /\ accounts' = o.accounts
  /\ txAccounts' = o.txAccounts
  /\ inTx' = o.inTx
  /\ db' = o.db
  /\ tx' = o.tx
  /\ remote' = o.remote
  /\ blocked' = o.blocked
  /\ ret' = Ret(op, id, arg, o)
  /\ txBase' = NextTxBase(op, o)
  /\ seededNegative' = (seededNegative \/ (op = "CreateAccount" /\ arg < 0 /\ o.err = "ok"))
  /\ UNCHANGED <<backend, appVars, startAccounts, codecVars>>

\* The call op(id, arg) of the store's one caller ends with outcome o.
Return(op, id, arg, o) == Answer(op, id, arg, o) /\ UNCHANGED callers

Initialize ==
  \E o \in {StorageInitialize(Cur)} : Return("Initialize", 0, 0, o)

Close ==
  \E o \in {StorageClose(Cur)} : Return("Close", 0, 0, o)

GetAccount ==
  \E id \in Ids : \E o \in {StorageGetAccount(Cur, id)} : Return("GetAccount", id, 0, o)

AccountExists ==
  \E id \in Ids : \E o \in {StorageAccountExists(Cur, id)} : Return("AccountExists", id, 0, o)

GetBalance ==
  \E id \in Ids : \E o \in {StorageGetBalance(Cur, id)} : Return("GetBalance", id, 0, o)

GetAllAccounts ==
  \E o \in {StorageGetAllAccounts(Cur)} : Return("GetAllAccounts", 0, 0, o)

CreateAccount ==
  \E id \in Ids, b \in Seeds :
    \E o \in {StorageCreateAccount(Cur, id, b)} : Return("CreateAccount", id, b, o)

UpdateBalance ==
  \E id \in Ids, d \in Deltas :
    \E o \in {StorageUpdateBalance(Cur, id, d)} : Return("UpdateBalance", id, d, o)

BeginTransaction ==
  \E o \in {StorageBeginTransaction(Cur)} : Return("BeginTransaction", 0, 0, o)

Commit ==
  \E o \in {StorageCommit(Cur)} : Return("Commit", 0, 0, o)

Rollback ==
  \E o \in {StorageRollback(Cur)} : Return("Rollback", 0, 0, o)

\* ------------------------------- RedisStorage, TigerBeetleStorage: faults

\* UpdateBalance outside a transaction, the write to the backend failing.
UpdateBalanceWriteFails ==
  /\ initialized /\ ~inTx
  /\ \E id \in Ids, d \in Deltas :
       \E o \in {IF backend = "redis" THEN RedisUpdateBalanceSetFails(Cur, id, d)
                                      ELSE TbUpdateBalanceTransferFails(Cur, id, d)} :
         /\ o.err = "WriteFailed"
         /\ Return("UpdateBalance", id, d, o)

\* Commit, the backend failing after it took the entries done.
CommitWriteFails ==
  /\ initialized /\ inTx
  /\ \E done \in SUBSET DOMAIN txAccounts :
       \E o \in {IF backend = "redis" THEN RedisCommitExecFails(Cur, done)
                                      ELSE TbCommitFails(Cur, done)} :
         /\ o.err = "WriteFailed"
         /\ Return("Commit", 0, 0, o)

\* ------------------------------------------------------- runBenchmarks

\* The flags of the benchmark: accounts created, transfers made, transfers
\* in a batch.
numAccounts == 2

numOperations == 6

batchSize == 2

\* transfers[i]
Transfer(i) ==
  [From |-> 1 + (i % (numAccounts - 1)), To |-> 1 + ((i + 1) % (numAccounts - 1)), Amount |-> 1]

\* Where the driver is: pc, the call it makes next; i, the first transfer of
\* its batch; k, the transfer it is at; dead, whether a Commit of the store
\* has failed, the *sql.Tx being finished and s.tx still set.  History of the
\* batch: base, the committed accounts when the batch began; failed, whether
\* an UpdateBalance of the batch returned an error.
\* The driver is the one caller of its store.
Driver == callers[1]

\* What the store holds outside any transaction.
Committed == [accounts |-> accounts, db |-> db]

At(pc, i, k, failed, base, dead) ==
  [c \in {1} |-> [pc |-> pc, i |-> i, k |-> k, failed |-> failed, base |-> base,
                  dead |-> dead]]

\* The loop goes on to the next batch, or ends.
NextBatch(failed, base, dead) ==
  IF Driver.i + batchSize < numOperations
    THEN At("begin", Driver.i + batchSize, Driver.i + batchSize, failed, base, dead)
    ELSE At("done", Driver.i, Driver.k, failed, base, dead)

\* The inner loop goes on to the next transfer of the batch, or to Commit.
NextTransfer(failed) ==
  IF Driver.k + 1 < Driver.i + batchSize /\ Driver.k + 1 < numOperations
    THEN At("debit", Driver.i, Driver.k + 1, failed, Driver.base, Driver.dead)
    ELSE At("commit", Driver.i, Driver.k, failed, Driver.base, Driver.dead)

\* store.BeginTransaction(); on an error the batch is skipped.  After a
\* failed Commit s.tx is still set and BeginTransaction commits it first,
\* which fails again on the finished *sql.Tx.
DriverBegin ==
  /\ Driver.pc = "begin"
  /\ \E o \in {IF Driver.dead THEN Fail(Cur, "TransactionFailed")
                               ELSE StorageBeginTransaction(Cur)} :
       /\ Answer("BeginTransaction", 0, 0, o)
       /\ callers' = IF o.err = "ok"
                       THEN At("debit", Driver.i, Driver.i, FALSE, Committed, Driver.dead)
                       ELSE NextBatch(FALSE, Committed, Driver.dead)

\* store.UpdateBalance(transfer.From, -transfer.Amount), then
\* store.UpdateBalance(transfer.To, transfer.Amount); on an error Rollback
\* is called and the inner loop continues.
DriverUpdate ==
  /\ Driver.pc \in {"debit", "credit"}
  /\ \E id \in {IF Driver.pc = "debit" THEN Transfer(Driver.k).From ELSE Transfer(Driver.k).To},
        delta \in {IF Driver.pc = "debit" THEN 0 - Transfer(Driver.k).Amount
                                          ELSE Transfer(Driver.k).Amount} :
       \E o \in {StorageUpdateBalance(Cur, id, delta)}
                  \cup (IF backend = "sqlite" THEN {SqlUpdateBalanceExecFails(Cur, id, delta)}
                                              ELSE {}) :
         /\ Answer("UpdateBalance", id, delta, o)
         /\ callers' = IF o.err # "ok"
                         THEN At("rollback", Driver.i, Driver.k, TRUE, Driver.base, Driver.dead)
                       ELSE IF Driver.pc = "debit"
                         THEN At("credit", Driver.i, Driver.k, Driver.failed, Driver.base,
                                 Driver.dead)
                       ELSE NextTransfer(Driver.failed)

\* store.Rollback(), its error ignored; continue.
DriverRollback ==
  /\ Driver.pc = "rollback"
  /\ \E o \in {StorageRollback(Cur)} :
       /\ Answer("Rollback", 0, 0, o)
       /\ callers' = NextTransfer(Driver.failed)

\* store.Commit(); on an error the loop continues with the next batch.
DriverCommit ==
  /\ Driver.pc = "commit"
  /\ \E o \in {StorageCommit(Cur)}
                \cup (IF backend = "sqlite" THEN {SqlCommitFails(Cur)} ELSE {}) :
       /\ Answer("Commit", 0, 0, o)
       /\ callers' = NextBatch(Driver.failed, Driver.base, Driver.dead \/ o.err # "ok")

\* ------------------------------------- MemoryStorage, concurrent callers

\* The goroutines that call UpdateBalance at the same time.
Callers == {1, 2}

\* A caller that has not called yet.  Of a caller's last step, lock is the
\* lock of the store's mutex it held ("read" for RLock, "write" for Lock) and
\* wrote, whether the step assigned to a map or a Balance of the store.
NoCall ==
  [pc |-> "idle", id |-> 0, delta |-> 0, ref |-> "none", newBalance |-> 0, err |-> "none",
   lock |-> "none", wrote |-> FALSE]

\* acc.Balance read through the pointer a GetAccount returned with ref.
ReadThrough(s, ref, id) == IF ref = "tx" THEN s.txAccounts[id] ELSE s.accounts[id]

\* The fields of the MemoryStorage become those of o.
SetStore(o) ==
  /\ initialized' = o.initialized
  /\ accounts' = o.accounts
  /\ txAccounts' = o.txAccounts
  /\ inTx' = o.inTx
  /\ UNCHANGED <<backend, db, tx, remote, blocked, ret, txBase, seededNegative, appVars,
                 startAccounts, codecVars>>

\* Caller c is at pc and leaves it for the record call.
Step(c, pc, call) ==
  /\ callers[c].pc = pc
  /\ callers' = [callers EXCEPT ![c] = call]

\* MemoryStorage.UpdateBalance up to the return of GetAccount: the
\* initialized flag is read without the lock, GetAccount runs under the read
\* lock and releases it; an account that is missing is created by
\* CreateAccount under the write lock, or the call fails.
UpdateBalanceGet ==
  \E c \in Callers, id \in Ids, delta \in Deltas :
    \E g \in {MemGetAccount(Cur, id)} :
      LET call == [NoCall EXCEPT !.id = id, !.delta = delta, !.lock = "read",
                                 !.wrote = (g.txAccounts # txAccounts)]
      IN IF g.err = "ok"
           THEN /\ Step(c, "idle", [call EXCEPT !.pc = "got", !.ref = g.ref])
                /\ SetStore(g)
         ELSE IF g.err = "AccountNotFound" /\ delta > 0
           THEN \E o \in {MemCreateAccount(g, id, delta)} :
                  /\ Step(c, "idle", [call EXCEPT !.pc = "done", !.err = o.err,
                                                  !.lock = "write", !.wrote = (o.err = "ok")])
                  /\ SetStore(o)
         ELSE /\ Step(c, "idle", [call EXCEPT !.pc = "done", !.err = g.err])
              /\ SetStore(g)

\* newBalance := acc.Balance + delta and the check against zero, no lock held.
UpdateBalanceRead ==
  \E c \in Callers :
    /\ callers[c].pc = "got"
    /\ \E newBalance \in {ReadThrough(Cur, callers[c].ref, callers[c].id) + callers[c].delta} :
         IF newBalance < 0
           THEN Step(c, "got", [callers[c] EXCEPT !.pc = "done", !.err = "InsufficientBalance",
                                                  !.lock = "none", !.wrote = FALSE])
           ELSE Step(c, "got", [callers[c] EXCEPT !.pc = "computed", !.newBalance = newBalance,
                                                  !.lock = "none", !.wrote = FALSE])
    /\ SetStore(Cur)

\* acc.Balance = newBalance and the return, no lock held.
UpdateBalanceWrite ==
  \E c \in Callers :
    /\ Step(c, "computed", [callers[c] EXCEPT !.pc = "done", !.err = "ok",
                                              !.lock = "none", !.wrote = TRUE])
    /\ SetStore(WriteThrough(Cur, callers[c].ref, callers[c].id, callers[c].newBalance))

\* ------------------------------------ MemoryStorage, two callers of a store

\* Caller c made the last call on the store.
LastCaller(c) == [k \in Callers |-> [NoCall EXCEPT !.pc = IF k = c THEN "called" ELSE "idle"]]

\* Caller 1 runs a transaction on the store: BeginTransaction, CreateAccount
\* and UpdateBalance, Commit or Rollback, each call as a whole.
WriterCall ==
  /\ callers' = LastCaller(1)
  /\ \/ \E o \in {MemBeginTransaction(Cur)} : Answer("BeginTransaction", 0, 0, o)
     \/ \E id \in Ids, b \in Seeds :
          \E o \in {MemCreateAccount(Cur, id, b)} : Answer("CreateAccount", id, b, o)
     \/ \E id \in Ids, d \in Deltas :
          \E o \in {MemUpdateBalance(Cur, id, d)} : Answer("UpdateBalance", id, d, o)
     \/ \E o \in {MemCommit(Cur)} : Answer("Commit", 0, 0, o)
     \/ \E o \in {MemRollback(Cur)} : Answer("Rollback", 0, 0, o)

\* Caller 2 reads the same store between two calls of caller 1.
ReaderCall ==
  /\ callers' = LastCaller(2)
  /\ \/ \E id \in Ids : \E o \in {MemGetBalance(Cur, id)} : Answer("GetBalance", id, 0, o)
     \/ \E id \in Ids : \E o \in {MemAccountExists(Cur, id)} : Answer("AccountExists", id, 0, o)
     \/ \E o \in {MemGetAllAccounts(Cur)} : Answer("GetAllAccounts", 0, 0, o)

\* Caller 2 is handed the *Account of id: by GetAccount, or as an element of
\* the slice GetAllAccounts returns, which holds the base's objects when no
\* transaction is open and otherwise the overlay's objects and new copies of
\* the base's.  ref is the map that holds the object, newBalance its Balance.
HandOut ==
  \E id \in Ids :
    \/ \E o \in {MemGetAccount(Cur, id)} :
         /\ o.err = "ok"
         /\ Answer("GetAccount", id, 0, o)
         /\ callers' = [LastCaller(2) EXCEPT ![2].pc = "holds", ![2].id = id, ![2].ref = o.ref,
                                             ![2].newBalance = o.val]
    \/ \E o \in {MemGetAllAccounts(Cur)} :
         /\ o.err = "ok"
         /\ \E b \in 0 .. MaxBal :
              /\ <<id, b>> \in o.all
              /\ callers' = [LastCaller(2) EXCEPT
                               ![2].pc = "holds", ![2].id = id, ![2].newBalance = b,
                               ![2].ref = IF ~inTx THEN "base"
                                          ELSE IF Has(txAccounts, id) THEN "tx" ELSE "fresh"]
         /\ Answer("GetAllAccounts", 0, 0, o)

\* Caller 2 assigns to the Balance field of the object it was handed.
SetBalance ==
  /\ callers[2].pc = "holds"
  /\ \E v \in (0 .. MaxBal) \ {callers[2].newBalance} :
       /\ callers' = [callers EXCEPT ![2].pc = "mutated", ![2].newBalance = v]
       /\ SetStore(WriteThrough(Cur, callers[2].ref, callers[2].id, v))

\* ------------------------------------------------- types.Transaction

\* The amounts of the operations clients submit.
Amounts == {1, 2}

\* Longest batch a client submits.
MaxOps == 2

\* An Operation.  Signature is modelled by who made it: 0 is the empty
\* string, k > 0 a signature made with user k's private key over the
\* operation's own GetDataForSigning bytes.
Op(from, to, amount, sig) == [From |-> from, To |-> to, Amount |-> amount, Signature |-> sig]

\* The operations clients submit: every transfer between two different
\* accounts signed by its sender, a transfer from an account to itself, and
\* one operation for each way of being malformed.
Operations ==
  {Op(p[1], p[2], a, p[1]) : p \in {q \in Ids \X Ids : q[1] # q[2]}, a \in Amounts}
    \cup {Op(1, 1, 1, 1)}
    \cup {Op(0, 2, 1, 1), Op(1, 0, 1, 1), Op(1, 2, 0, 1), Op(1, 2, 1, 0), Op(1, 2, 1, 2)}

\* The batches clients submit.
Transactions == UNION {[1 .. n -> Operations] : n \in 0 .. MaxOps}

\* crypto.VerifySignature(pubKey, data, signature), data being the signed
\* operation's own bytes: the signature verifies under the signer's key only.
VerifySignature(pubKey, sig) == sig = pubKey

\* Mutant: the amount is not checked.
BasicValidateOperation_AnyAmount(op) ==
  IF op.From <= 0 THEN "invalid sender ID"
  ELSE IF op.To <= 0 THEN "invalid recipient ID"
  ELSE IF op.Signature = 0 THEN "missing signature"
  ELSE "ok"

\* types.ValidateOperation: the error, or "ok".
BasicValidateOperation(op) ==
  IF op.From <= 0 THEN "invalid sender ID"
  ELSE IF op.To <= 0 THEN "invalid recipient ID"
  ELSE IF op.Amount <= 0 THEN "invalid amount"
  ELSE IF op.Signature = 0 THEN "missing signature"
  ELSE "ok"

\* An outcome of the processor: the error ("ok" for nil), the index of the
\* operation the error names (-1 when it names none), State.Accounts after.
Res(err, idx, accs) == [err |-> err, idx |-> idx, Accounts |-> accs]

RECURSIVE TxValidateFrom(_, _)
TxValidateFrom(batch, i) ==
  IF i > Len(batch) THEN "ok"
  ELSE IF BasicValidateOperation(batch[i]) # "ok" THEN BasicValidateOperation(batch[i])
  ELSE TxValidateFrom(batch, i + 1)

RECURSIVE TxValidateIndex(_, _)
TxValidateIndex(batch, i) ==
  IF i > Len(batch) THEN 0 - 1
  ELSE IF BasicValidateOperation(batch[i]) # "ok" THEN i - 1
  ELSE TxValidateIndex(batch, i + 1)

\* Transaction.Validate
TxValidate(batch, accs) ==
  IF Len(batch) = 0 THEN Res("no operations", 0 - 1, accs)
  ELSE Res(TxValidateFrom(batch, 1), TxValidateIndex(batch, 1), accs)

\* ---------------------------------------------------------- types.State

\* State.GetAccount: an account that is missing is created with balance 0.
StateGetAccount(accs, id) == IF Has(accs, id) THEN accs ELSE Put(accs, id, 0)

\* State.UpdateBalance
StateUpdateBalance(accs, id, delta) ==
  LET a == StateGetAccount(accs, id)
      newBalance == WrapInt(a[id] + delta)
  IN IF newBalance < 0 THEN Res("insufficient balance", 0 - 1, a)
     ELSE Res("ok", 0 - 1, Put(a, id, newBalance))

\* --------------------------------------------------- TransactionProcessor

\* The loop of ProcessTransaction, were it to debit senders and never credit
\* recipients.
RECURSIVE ApplyFrom_NoCredit(_, _, _)
ApplyFrom_NoCredit(accs, batch, i) ==
  IF i > Len(batch) THEN Res("ok", 0 - 1, accs)
  ELSE LET debit == StateUpdateBalance(accs, batch[i].From, 0 - batch[i].Amount)
       IN IF debit.err # "ok" THEN Res("failed to deduct from sender", i - 1, debit.Accounts)
          ELSE ApplyFrom_NoCredit(debit.Accounts, batch, i + 1)

\* Mutant: a debit whose credit failed is not given back to the sender.
RECURSIVE ApplyFrom_NoRevert(_, _, _)
ApplyFrom_NoRevert(accs, batch, i) ==
  IF i > Len(batch) THEN Res("ok", 0 - 1, accs)
  ELSE LET debit == StateUpdateBalance(accs, batch[i].From, 0 - batch[i].Amount)
           credit == StateUpdateBalance(debit.Accounts, batch[i].To, batch[i].Amount)
       IN IF debit.err # "ok" THEN Res("failed to deduct from sender", i - 1, debit.Accounts)
          ELSE IF credit.err # "ok"
            THEN Res("failed to add to recipient", i - 1, credit.Accounts)
          ELSE ApplyFrom_NoRevert(credit.Accounts, batch, i + 1)

\* The loop of ProcessTransaction from operation i on.
RECURSIVE ApplyFrom(_, _, _)
ApplyFrom(accs, batch, i) ==
  IF i > Len(batch) THEN Res("ok", 0 - 1, accs)
  ELSE LET debit == StateUpdateBalance(accs, batch[i].From, 0 - batch[i].Amount)
           credit == StateUpdateBalance(debit.Accounts, batch[i].To, batch[i].Amount)
           revert == StateUpdateBalance(credit.Accounts, batch[i].From, batch[i].Amount)
       IN IF debit.err # "ok" THEN Res("failed to deduct from sender", i - 1, debit.Accounts)
          ELSE IF credit.err # "ok"
            THEN Res("failed to add to recipient", i - 1, revert.Accounts)
          ELSE ApplyFrom(credit.Accounts, batch, i + 1)

\* Mutant: the signature is not verified.
ValidateOperation_NoVerify(keys, accs, op) ==
  IF BasicValidateOperation(op) # "ok" THEN Res(BasicValidateOperation(op), 0 - 1, accs)
  ELSE IF ~Has(keys, op.From) THEN Res("no public key", 0 - 1, accs)
  ELSE LET a == StateGetAccount(accs, op.From)
       IN IF a[op.From] < op.Amount THEN Res("insufficient balance", 0 - 1, a)
          ELSE Res("ok", 0 - 1, a)

\* TransactionProcessor.ValidateOperation
ValidateOperation(keys, accs, op) ==
  IF BasicValidateOperation(op) # "ok" THEN Res(BasicValidateOperation(op), 0 - 1, accs)
  ELSE IF ~Has(keys, op.From) THEN Res("no public key", 0 - 1, accs)
  ELSE IF ~VerifySignature(keys[op.From], op.Signature) THEN Res("invalid signature", 0 - 1, accs)
  ELSE LET a == StateGetAccount(accs, op.From)
       IN IF a[op.From] < op.Amount THEN Res("insufficient balance", 0 - 1, a)
          ELSE Res("ok", 0 - 1, a)

RECURSIVE ValidateFrom(_, _, _, _)
ValidateFrom(keys, accs, batch, i) ==
  IF i > Len(batch) THEN Res("ok", 0 - 1, accs)
  ELSE LET v == ValidateOperation(keys, accs, batch[i])
       IN IF v.err # "ok" THEN Res(v.err, i - 1, v.Accounts)
          ELSE ValidateFrom(keys, v.Accounts, batch, i + 1)

\* Mutant: the debits of the batch are accumulated, a batch whose operations
\* cannot all be applied one after the other being rejected.
ValidateTransaction_Accumulating(keys, accs, batch) ==
  LET b == TxValidate(batch, accs)
      v == ValidateFrom(keys, accs, batch, 1)
      applied == ApplyFrom(v.Accounts, batch, 1)
  IN IF b.err # "ok" THEN b
     ELSE IF v.err # "ok" THEN v
     ELSE IF applied.err # "ok" THEN Res("insufficient balance", applied.idx, v.Accounts)
     ELSE v

\* TransactionProcessor.ValidateTransaction
ValidateTransaction(keys, accs, batch) ==
  LET b == TxValidate(batch, accs)
  IN IF b.err # "ok" THEN b ELSE ValidateFrom(keys, accs, batch, 1)

\* TransactionProcessor.ProcessTransaction
ProcessTransaction(keys, accs, batch) ==
  LET v == ValidateTransaction(keys, accs, batch)
  IN IF v.err # "ok" THEN v ELSE ApplyFrom(v.Accounts, batch, 1)

\* ------------------------------------------------- the processor's calls

\* What operation op moves into account id.
Moves(op, id) ==
  (IF op.To = id THEN op.Amount ELSE 0) - (IF op.From = id THEN op.Amount ELSE 0)

RECURSIVE NetFrom(_, _, _)
NetFrom(batch, id, i) ==
  IF i > Len(batch) THEN 0 ELSE Moves(batch[i], id) + NetFrom(batch, id, i + 1)

\* What a batch moves into account id, all its operations counted: the
\* amounts it receives less the amounts it sends.
Net(batch, id) == NetFrom(batch, id, 1)

\* The accounts a batch names.
Named(batch) == {batch[i].From : i \in 1 .. Len(batch)} \cup {batch[i].To : i \in 1 .. Len(batch)}

\* A call on the processor: the operation, the error and index it returned,
\* the number of operations processTx reports for a batch it applied (-1 when
\* it reports none) and, of a batch that was applied, the net movement and
\* the accounts named.
Result(op, r, batch) ==
  [op |-> op, err |-> r.err, idx |-> r.idx,
   count |-> IF r.err = "ok" /\ op \in {"ProcessTransaction", "processTx"}
               THEN Len(batch) ELSE 0 - 1,
   net |-> [id \in Ids |-> IF r.err = "ok" THEN Net(batch, id) ELSE 0],
   named |-> IF r.err = "ok" THEN Named(batch) ELSE {}]

NoResult == Result("none", Res("ok", 0 - 1, EmptyMap), <<>>)

\* The application hands a delivered batch to the processor
\* (Application.processTx).  
ProcessTx ==
  \E batch \in Transactions :
    \E r \in {ProcessTransaction(userKeys, Accounts, batch)} :
      /\ Accounts' = r.Accounts
      /\ txResult' = Result("ProcessTransaction", r, batch)
      /\ UNCHANGED <<userKeys, reqTx, storeVars, ret, txBase, seededNegative, callVars, codecVars>>

\* The application has answered no request yet.
FirstRequest == txResult.op = "none"

\* Application.CheckTx: the application pre-validates a submitted batch with
\* TransactionProcessor.ValidateTransaction.
CheckTx ==
  /\ FirstRequest
  /\ \E batch \in Transactions :
      \E r \in {ValidateTransaction(userKeys, Accounts, batch)} :
        /\ Accounts' = r.Accounts
        /\ txResult' = Result("CheckTx", r, <<>>)
        /\ reqTx' = batch
        /\ UNCHANGED <<userKeys, storeVars, ret, txBase, seededNegative, callVars, codecVars>>

\* Application.FinalizeBlock with one transaction: processTx hands the batch
\* to TransactionProcessor.ProcessTransaction and reports the outcome.
DeliverTx ==
  /\ FirstRequest
  /\ \E batch \in Transactions :
      \E r \in {ProcessTransaction(userKeys, Accounts, batch)} :
        /\ Accounts' = r.Accounts
        /\ txResult' = Result("processTx", r, batch)
        /\ reqTx' = batch
        /\ UNCHANGED <<userKeys, storeVars, ret, txBase, seededNegative, callVars, codecVars>>

\* Transaction.Validate on a parsed batch.
ValidateTx ==
  /\ FirstRequest
  /\ \E batch \in Transactions :
      \E r \in {TxValidate(batch, Accounts)} :
        /\ txResult' = Result("Validate", r, <<>>)
        /\ reqTx' = batch
        /\ UNCHANGED <<Accounts, userKeys, storeVars, ret, txBase, seededNegative, callVars, codecVars>>

\* StateStore.UpdateBalance called with any id and delta, as one request.
StateStoreUpdateBalance ==
  /\ FirstRequest
  /\ \E id \in Ids, delta \in (0 - MaxInt) .. MaxInt :
       \E r \in {StateUpdateBalance(Accounts, id, delta)} :
         /\ Accounts' = r.Accounts
         /\ txResult' = Result("StateStore.UpdateBalance", r, <<>>)
         /\ reqTx' = <<>>
         /\ UNCHANGED <<userKeys, storeVars, ret, txBase, seededNegative, callVars, codecVars>>

\* StateStore.UpdateBalance, as Application.InitChain calls it to fund accounts.
FundAccount ==
  \E id \in Ids, delta \in Amounts :
    \E r \in {StateUpdateBalance(Accounts, id, delta)} :
      /\ Accounts' = r.Accounts
      /\ txResult' = Result("UpdateBalance", r, <<>>)
      /\ UNCHANGED <<userKeys, reqTx, storeVars, ret, txBase, seededNegative, callVars, codecVars>>

\* TransactionProcessor.RegisterUserKey: a user registers the key it made.
RegisterUserKey ==
  \E userID \in Ids :
    /\ userKeys' = Put(userKeys, userID, userID)
    /\ txResult' = Result("RegisterUserKey", Res("ok", 0 - 1, Accounts), <<>>)
    /\ UNCHANGED <<Accounts, reqTx, storeVars, ret, txBase, seededNegative, callVars, codecVars>>

\* ------------------------------------------- Serialize, ParseTransaction

\* The text of a JSON document is a sequence of characters; an object is
\* written as the record of its members' texts, an array as the sequence of
\* its elements.

\* The decimal digits.
Digit == <<"0", "1", "2", "3", "4", "5", "6", "7", "8", "9">>

RECURSIVE DigitsOf(_)
\* The digits of n >= 0, most significant first.
DigitsOf(n) == IF n < 10 THEN <<Digit[n + 1]>> ELSE Append(DigitsOf(n \div 10), Digit[(n % 10) + 1])

\* json.Marshal of an int.
FormatInt(n) == IF n < 0 THEN <<"-">> \o DigitsOf(0 - n) ELSE DigitsOf(n)

RECURSIVE ValueOf(_, _, _)
\* The number the digits of text from position i on add to acc.
ValueOf(text, i, acc) ==
  IF i > Len(text) THEN acc
  ELSE ValueOf(text, i + 1, 10 * acc + ((CHOOSE d \in 1 .. 10 : Digit[d] = text[i]) - 1))

\* json.Unmarshal of a number into an int.
ParseInt(text) ==
  IF text[1] = "-" THEN 0 - ValueOf(text, 2, 0) ELSE ValueOf(text, 1, 0)

RECURSIVE EscapeFrom(_, _)
\* The characters of s from position i on as json.Marshal writes them inside
\* a string: the quote and the backslash behind a backslash, "<" as \u003c.
EscapeFrom(s, i) ==
  IF i > Len(s) THEN <<>>
  ELSE (IF s[i] = "\"" THEN <<"\\", "\"">>
        ELSE IF s[i] = "\\" THEN <<"\\", "\\">>
        ELSE IF s[i] = "<" THEN <<"\\", "u", "0", "0", "3", "c">>
        ELSE <<s[i]>>) \o EscapeFrom(s, i + 1)

\* Mutant: the characters are written as they are.
Quote_Raw(s) == <<"\"">> \o s \o <<"\"">>

\* json.Marshal of a string.
Quote(s) == <<"\"">> \o EscapeFrom(s, 1) \o <<"\"">>

RECURSIVE UnescapeTo(_, _, _)
\* The string the characters text[i .. last] spell.
UnescapeTo(text, i, last) ==
  IF i > last THEN <<>>
  ELSE IF text[i] # "\\" THEN <<text[i]>> \o UnescapeTo(text, i + 1, last)
  ELSE IF text[i + 1] = "u"
    THEN (IF SubSeq(text, i + 2, i + 5) = <<"0", "0", "3", "c">> THEN <<"<">> ELSE <<"?">>)
           \o UnescapeTo(text, i + 6, last)
  ELSE <<text[i + 1]>> \o UnescapeTo(text, i + 2, last)

\* json.Unmarshal of a string literal.
Unquote(text) == UnescapeTo(text, 2, Len(text) - 1)

\* text is a JSON number an int takes.
IsNumber(text) ==
  LET digits == IF Len(text) >= 1 /\ text[1] = "-" THEN Tail(text) ELSE text
  IN /\ Len(digits) >= 1
     /\ \A i \in 1 .. Len(digits) : \E d \in 1 .. 10 : Digit[d] = digits[i]
     /\ (Len(digits) > 1 => digits[1] # "0")

RECURSIVE EscapedTo(_, _, _)
\* text[i .. last] is the inside of a JSON string literal.
EscapedTo(text, i, last) ==
  IF i > last THEN TRUE
  ELSE IF text[i] = "\"" THEN FALSE
  ELSE IF text[i] # "\\" THEN EscapedTo(text, i + 1, last)
  ELSE IF i + 1 > last THEN FALSE
  ELSE IF text[i + 1] = "u" THEN i + 5 <= last /\ EscapedTo(text, i + 6, last)
  ELSE text[i + 1] \in {"\"", "\\"} /\ EscapedTo(text, i + 2, last)

\* text is a JSON string literal.
IsString(text) ==
  /\ Len(text) >= 2
  /\ text[1] = "\""
  /\ text[Len(text)] = "\""
  /\ EscapedTo(text, 2, Len(text) - 1)

\* A Transaction: its Operations slice, which may be nil.
Tx(ops, isNil) == [Operations |-> ops, nil |-> isNil]

\* (*Transaction).Serialize: json.Marshal of the transaction.  A nil
\* Operations slice is written null, any other as an array of objects.
Serialize(t) ==
  [null |-> t.nil,
   operations |->
     [i \in 1 .. Len(t.Operations) |->
        [from |-> FormatInt(t.Operations[i].From), to |-> FormatInt(t.Operations[i].To),
         amount |-> FormatInt(t.Operations[i].Amount),
         signature |-> Quote(t.Operations[i].Signature)]]]

\* ParseTransaction: json.Unmarshal into a new Transaction, or the error
\* "failed to parse transaction" when a member's text is not of its type.
\* null leaves Operations nil.
ParseTransaction(data) ==
  IF \A i \in 1 .. Len(data.operations) :
       /\ IsNumber(data.operations[i].from)
       /\ IsNumber(data.operations[i].to)
       /\ IsNumber(data.operations[i].amount)
       /\ IsString(data.operations[i].signature)
    THEN [err |-> "ok",
          tx |-> Tx([i \in 1 .. Len(data.operations) |->
                       Op(ParseInt(data.operations[i].from), ParseInt(data.operations[i].to),
                          ParseInt(data.operations[i].amount),
                          Unquote(data.operations[i].signature))],
                    data.null)]
    ELSE [err |-> "failed to parse transaction", tx |-> Tx(<<>>, TRUE)]

\* Mutant: the operation is marshalled whole.
GetDataForSigning_WithSignature(op) ==
  [from |-> FormatInt(op.From), to |-> FormatInt(op.To), amount |-> FormatInt(op.Amount),
   signature |-> Quote(op.Signature)]

\* (*Operation).GetDataForSigning: json.Marshal of the three fields.
GetDataForSigning(op) ==
  [from |-> FormatInt(op.From), to |-> FormatInt(op.To), amount |-> FormatInt(op.Amount)]

\* The ints the fields of a serialized operation take.
WireInts == {0 - 12, 0, 1, 2, 12, 21}

\* The signature strings: empty, base64 text, and text a client may send
\* that needs escaping.
WireSignatures == {<<>>, <<"A", "=">>, <<"\"", "A">>, <<"\\", "<">>}

\* The operations that are serialized.
WireOps ==
  {Op(p[1], p[2], p[3], s) : p \in {<<1, 2, 12>>, <<2, 1, 21>>, <<0 - 12, 0, 0>>},
                             s \in WireSignatures}

\* The transactions that are serialized: batches of operations, and the
\* transaction whose Operations slice is nil.
WireTransactions ==
  {Tx(<<>>, TRUE)} \cup {Tx(ops, FALSE) : ops \in UNION {[1 .. n -> WireOps] : n \in 0 .. MaxOps}}

\* Nothing is on its way.
NoWire ==
  [pc |-> "none", tx |-> Tx(<<>>, TRUE), data |-> Serialize(Tx(<<>>, TRUE)),
   signing |-> GetDataForSigning(Op(0, 0, 0, <<>>)), parsed |-> Tx(<<>>, TRUE), err |-> "none",
   op |-> 0]

\* tx.Serialize() returns the bytes.
SerializeTx ==
  /\ wire.pc = "new"
  /\ wire' = [wire EXCEPT !.pc = "serialized", !.data = Serialize(wire.tx)]
  /\ UNCHANGED <<storeVars, ret, txBase, seededNegative, appVars, callVars>>

\* ParseTransaction(data) returns a transaction.
ParseTx ==
  /\ wire.pc = "serialized"
  /\ \E r \in {ParseTransaction(wire.data)} :
       wire' = [wire EXCEPT !.pc = "parsed", !.parsed = r.tx, !.err = r.err]
  /\ UNCHANGED <<storeVars, ret, txBase, seededNegative, appVars, callVars>>

\* op.GetDataForSigning() on an operation of the transaction.
SignData ==
  /\ wire.pc = "new"
  /\ \E i \in 1 .. Len(wire.tx.Operations) :
       wire' = [wire EXCEPT !.pc = "signing", !.op = i,
                            !.signing = GetDataForSigning(wire.tx.Operations[i])]
  /\ UNCHANGED <<storeVars, ret, txBase, seededNegative, appVars, callVars>>

\* A store just built by its factory.  A Redis server may already hold
\* account keys (any set of them; UpdateBalance then reaches every balance);
\* the memory maps and a new database file are empty.
InitStore ==
  /\ backend \in Backends
  /\ initialized = FALSE
  /\ accounts = EmptyMap
  /\ txAccounts = EmptyMap
  /\ inTx = FALSE
  /\ db = EmptyMap
  /\ tx = NoTx
  /\ remote \in (IF backend = "redis" THEN Maps(Ids, {1}) ELSE {EmptyMap})
  /\ blocked = FALSE
  /\ ret = NoRet
  /\ txBase = NoTxBase
  /\ seededNegative = FALSE
  /\ callers = [c \in Callers |-> NoCall]
  /\ startAccounts = EmptyMap
  /\ wire = NoWire

Init ==
  /\ InitStore
  /\ Accounts = EmptyMap
  /\ userKeys = EmptyMap
  /\ txResult = NoResult
  /\ reqTx = <<>>

Next ==
  \/ Initialize
  \/ Close
  \/ GetAccount
  \/ AccountExists
  \/ GetBalance
  \/ GetAllAccounts
  \/ CreateAccount
  \/ UpdateBalance
  \/ BeginTransaction
  \/ Commit
  \/ Rollback

\* Any of the adapters.
Spec == Init /\ [][Next]_vars

\* The in-memory adapter.
InitMemory == Init /\ backend = "memory"

SpecMemory == InitMemory /\ [][Next]_vars

NextProcessor ==
  \/ ProcessTx
  \/ FundAccount
  \/ RegisterUserKey

\* The application's processor over its StateStore.
SpecProcessor == InitMemory /\ [][NextProcessor]_vars

\* The states of the application a request can find: accounts that were
\* funded, or created with nothing by a validation, and users that
\* registered their keys.
InitCalls ==
  /\ InitStore
  /\ backend = "memory"
  /\ Accounts \in Maps(Ids, 0 .. MaxInt)
  /\ userKeys \in {[u \in K |-> u] : K \in SUBSET Ids}
  /\ txResult = NoResult
  /\ reqTx = <<>>

\* One request on the application.
NextCalls ==
  \/ DeliverTx
  \/ CheckTx
  \/ ValidateTx
  \/ StateStoreUpdateBalance

\* The answer of the application to one request, over the states the
\* request can find and the batches it can carry.
SpecCalls == InitCalls /\ [][NextCalls]_vars

\* An initialized MemoryStorage that holds accounts, with or without a
\* transaction open, before its concurrent callers call.
InitConcurrent ==
  /\ backend = "memory"
  /\ initialized = TRUE
  /\ accounts \in Maps(Ids, 0 .. MaxBal)
  /\ txAccounts = EmptyMap
  /\ inTx \in BOOLEAN
  /\ db = EmptyMap
  /\ tx = NoTx
  /\ remote = EmptyMap
  /\ blocked = FALSE
  /\ ret = NoRet
  /\ txBase = NoTxBase
  /\ seededNegative = FALSE
  /\ Accounts = EmptyMap
  /\ userKeys = EmptyMap
  /\ txResult = NoResult
  /\ reqTx = <<>>
  /\ callers = [c \in Callers |-> NoCall]
  /\ startAccounts = accounts
  /\ wire = NoWire

NextConcurrent ==
  \/ UpdateBalanceGet
  \/ UpdateBalanceRead
  \/ UpdateBalanceWrite

\* Two goroutines call MemoryStorage.UpdateBalance once each, their steps
\* interleaved in every way the locks allow.
SpecConcurrent == InitConcurrent /\ [][NextConcurrent]_vars

NextShared ==
  \/ WriterCall
  \/ ReaderCall
  \/ HandOut
  \/ SetBalance

\* A MemoryStorage right after Initialize: no account, no transaction.
InitShared == InitConcurrent /\ accounts = EmptyMap /\ ~inTx

\* One goroutine runs transactions on a MemoryStorage while another reads
\* it and may assign to the objects it is handed; every call runs as a whole.
SpecShared == InitShared /\ [][NextShared]_vars

\* A TigerBeetleStorage just built by its factory, for a ledger that holds
\* any set of the accounts with one credit posted.
InitLedger ==
  /\ backend = "tigerbeetle"
  /\ initialized = FALSE
  /\ accounts = EmptyMap
  /\ txAccounts = EmptyMap
  /\ inTx = FALSE
  /\ db = EmptyMap
  /\ tx = NoTx
  /\ remote \in Maps(Ids, {1})
  /\ blocked = FALSE
  /\ ret = NoRet
  /\ txBase = NoTxBase
  /\ seededNegative = FALSE
  /\ Accounts = EmptyMap
  /\ userKeys = EmptyMap
  /\ txResult = NoResult
  /\ reqTx = <<>>
  /\ callers = [c \in Callers |-> NoCall]
  /\ startAccounts = EmptyMap
  /\ wire = NoWire

\* The TigerBeetle adapter.
SpecLedger == InitLedger /\ [][Next]_vars

\* A RedisStorage or a TigerBeetleStorage after Initialize, on a server or a
\* ledger that holds any set of the accounts.
InitFaults ==
  /\ backend \in {"redis", "tigerbeetle"}
  /\ initialized = TRUE
  /\ accounts = EmptyMap
  /\ txAccounts = EmptyMap
  /\ inTx = FALSE
  /\ db = EmptyMap
  /\ tx = NoTx
  /\ remote \in Maps(Ids, {1})
  /\ blocked = FALSE
  /\ ret = NoRet
  /\ txBase = NoTxBase
  /\ seededNegative = FALSE
  /\ Accounts = EmptyMap
  /\ userKeys = EmptyMap
  /\ txResult = NoResult
  /\ reqTx = <<>>
  /\ callers = [c \in Callers |-> NoCall]
  /\ startAccounts = EmptyMap
  /\ wire = NoWire

NextFaults ==
  \/ BeginTransaction
  \/ UpdateBalance
  \/ Commit
  \/ Rollback
  \/ UpdateBalanceWriteFails
  \/ CommitWriteFails

\* The adapters of the two remote backends, whose writes may fail.
SpecFaults == InitFaults /\ [][NextFaults]_vars

\* The store of the driver after Initialize and the CreateAccount calls, the
\* balance of 1000000 scaled down to MaxBal.  A CreateAccount that fails is
\* logged and the driver goes on without the account, which on the memory
\* store does not happen.  On a RedisStorage or a TigerBeetleStorage the
\* first CreateAccount does not return.
InitDriver ==
  /\ backend \in {"memory", "sqlite"}
  /\ initialized = TRUE
  /\ accounts = (IF backend = "memory" THEN [id \in 1 .. numAccounts |-> MaxBal] ELSE EmptyMap)
  /\ txAccounts = EmptyMap
  /\ inTx = FALSE
  /\ \E created \in SUBSET (1 .. numAccounts) :
       db = (IF backend = "sqlite" THEN [id \in created |-> MaxBal] ELSE EmptyMap)
  /\ tx = NoTx
  /\ remote = EmptyMap
  /\ blocked = FALSE
  /\ ret = NoRet
  /\ txBase = NoTxBase
  /\ seededNegative = FALSE
  /\ Accounts = EmptyMap
  /\ userKeys = EmptyMap
  /\ txResult = NoResult
  /\ reqTx = <<>>
  /\ callers = At("begin", 0, 0, FALSE, Committed, FALSE)
  /\ startAccounts = EmptyMap
  /\ wire = NoWire

NextDriver ==
  \/ DriverBegin
  \/ DriverUpdate
  \/ DriverRollback
  \/ DriverCommit

\* The batch loop of the benchmark on a database whose writes may fail.
SpecDriver == InitDriver /\ [][NextDriver]_vars

\* A transaction a client built, before it is serialized or signed.
InitCodec ==
  /\ backend = "memory"
  /\ initialized = FALSE
  /\ accounts = EmptyMap
  /\ txAccounts = EmptyMap
  /\ inTx = FALSE
  /\ db = EmptyMap
  /\ tx = NoTx
  /\ remote = EmptyMap
  /\ blocked = FALSE
  /\ ret = NoRet
  /\ txBase = NoTxBase
  /\ seededNegative = FALSE
  /\ Accounts = EmptyMap
  /\ userKeys = EmptyMap
  /\ txResult = NoResult
  /\ reqTx = <<>>
  /\ callers = [c \in Callers |-> NoCall]
  /\ startAccounts = EmptyMap
  /\ wire \in {[NoWire EXCEPT !.pc = "new", !.tx = t] : t \in WireTransactions}

NextCodec ==
  \/ SerializeTx
  \/ ParseTx
  \/ SignData

\* A transaction is serialized and parsed back, or its operations' signing
\* data is made.
SpecCodec == InitCodec /\ [][NextCodec]_vars

\* ------------------------------------------------------------ observations

\* The balance of an account of State.Accounts, an account that is missing
\* counting as one that holds nothing.
Balance(id) == IF Has(Accounts, id) THEN Accounts[id] ELSE 0

\* The balances of all accounts.
Balances == [id \in Ids |-> Balance(id)]

\* What a caller observes of every account now.
View == [i \in Ids |-> Observe(Cur, i)]

\* What a caller observes now of the account the last call named.
Seen == IF ret.id \in Ids THEN Observe(Cur, ret.id) ELSE NoObs

\* No balance the last call returned is negative.
NoNegativeReturned ==
  /\ (ret.op \in {"GetBalance", "GetAccount"} /\ ret.err = "ok") => ret.val >= 0
  /\ ret.op = "GetAllAccounts" => \A e \in ret.all : e[2] >= 0

\* ------------------------------------------------------------------ claims

(* C1: all-or-nothing.  When ProcessTransaction returns an error, whether
   from validation, from a debit or from a credit, at whatever operation of
   the batch, every account balance is what it was before the call. *)
C1_AllOrNothing ==
  [][(txResult'.op = "ProcessTransaction" /\ txResult'.err # "ok")
       => Balances' = Balances]_vars

(* C2: when ProcessTransaction returns no error, the balance of every account
   is its balance before the call plus the amounts the batch's operations
   send to it less the amounts they take from it, and an account the batch
   does not name is left as it was, present or missing. *)
C2_SuccessAppliesNet ==
  [][(txResult'.op = "ProcessTransaction" /\ txResult'.err = "ok")
       => /\ \A id \in Ids : Balance(id)' = Balance(id) + txResult'.net[id]
          /\ \A id \in Ids \ txResult'.named :
               /\ Has(Accounts', id) = Has(Accounts, id)
               /\ Balance(id)' = Balance(id)]_vars

\* A batch of two operations was applied: account 1 sent 3 in all, account 2
\* holds them.
C2_Witness ==
  /\ txResult.op = "ProcessTransaction"
  /\ txResult.err = "ok"
  /\ txResult.net[1] = 0 - 3
  /\ Has(Accounts, 2)
  /\ Balance(2) = 3
  /\ Balance(1) = 0

(* C3, as claimed: in MemoryStorage, after a Rollback that ends a run of
   CreateAccount, UpdateBalance, GetAccount, GetBalance, AccountExists and
   GetAllAccounts calls made since a BeginTransaction, the committed base
   (ids and balances) is the base just before that BeginTransaction: the
   base the call left, which is the base it found. *)
C3_RollbackRestoresBaseBeforeBegin ==
  (backend = "memory" /\ txBase.phase = "rolledback")
    => (accounts = txBase.base /\ ~txBase.changed)

(* C3, amended: in MemoryStorage, after a Rollback that ends a run of
   CreateAccount, UpdateBalance, GetAccount, GetBalance, AccountExists and
   GetAllAccounts calls made since a BeginTransaction, the committed base
   (ids and balances) is the base that BeginTransaction left, and that is
   the base just before the call when no transaction was open at the call. *)
C3_RollbackRestoresBase ==
  (backend = "memory" /\ txBase.phase = "rolledback")
    => (accounts = txBase.base /\ (txBase.changed => txBase.nested))

C3_Witness ==
  /\ backend = "memory"
  /\ txBase.phase = "rolledback"
  /\ ~txBase.nested
  /\ txBase.dirty
  /\ accounts # EmptyMap

(* C4, as claimed: whatever the arguments of the calls made so far, no balance
   returned by GetBalance, GetAccount or GetAllAccounts is below zero. *)
C4_NeverNegative == NoNegativeReturned

(* C4, amended: no balance returned by GetBalance, GetAccount or
   GetAllAccounts is below zero as long as no CreateAccount with a negative
   initial balance has succeeded. *)
C4_NeverNegativeUnlessSeeded == ~seededNegative => NoNegativeReturned

C4_Witness ==
  /\ ~seededNegative
  /\ ret.op = "GetAllAccounts"
  /\ ret.err = "ok"
  /\ \E e \in ret.all : e[2] = 0
  /\ \E e \in ret.all : e[2] = MaxBal

(* C5: MemoryStorage.CreateAccount(id, b) on an id that AccountExists reports
   fails with AccountAlreadyExists and leaves every observed balance as it
   was, also inside a transaction when id is only in the committed base. *)
C5_CreateVisibleFails ==
  [][(backend = "memory" /\ initialized /\ ret'.op = "CreateAccount" /\ ret'.pre.found)
       => (ret'.err = "AccountAlreadyExists" /\ View' = View)]_vars

(* C6: read-your-writes.  Inside an open transaction, right after a
   successful CreateAccount(id, b), AccountExists(id) is true and
   GetBalance(id) is b; right after a successful UpdateBalance(id, d),
   GetBalance(id) is the balance observed before plus d (d itself for an
   account the call created). *)
C6_ReadYourWrites ==
  (TxOpen(Cur) /\ initialized /\ ret.err = "ok")
    => /\ ret.op = "CreateAccount"
            => (Seen.found /\ Seen.err = "ok" /\ Seen.val = ret.arg)
       /\ ret.op = "UpdateBalance"
            => (Seen.found /\ Seen.err = "ok" /\ Seen.val = ret.pre.val + ret.arg)

C6_Witness ==
  /\ TxOpen(Cur)
  /\ ret.op = "CreateAccount"
  /\ ret.err = "ok"
  /\ ~Has(Base(Cur), ret.id)
  /\ Seen.found
  /\ Seen.val = MaxBal

(* C7: auto-vivification in the memory and SQLite adapters.  UpdateBalance(id,
   delta) on an id that is not visible creates the account with balance
   delta when delta > 0; when delta <= 0 it fails with AccountNotFound and the
   id stays absent. *)
C7_AutoVivification ==
  (backend \in {"memory", "sqlite"} /\ ret.op = "UpdateBalance" /\ ret.pre.err = "AccountNotFound"
     /\ ~ret.pre.found)
    => IF ret.arg > 0
         THEN ret.err = "ok" /\ Seen.found /\ Seen.err = "ok" /\ Seen.val = ret.arg
         ELSE ret.err = "AccountNotFound" /\ ~Seen.found /\ Seen.err = "AccountNotFound"

C7_Witness ==
  /\ ret.op = "UpdateBalance"
  /\ ~ret.pre.found
  /\ ret.arg > 0
  /\ ret.err = "ok"
  /\ Seen.val = ret.arg

(* C8: UpdateBalance(id, delta) on a visible account whose balance plus delta
   is negative returns InsufficientBalance, and the balance observed for every
   account and whether a transaction is open are as before the call. *)
C8_InsufficientNoEffect ==
  [][(ret'.op = "UpdateBalance" /\ ret'.pre.found /\ ret'.pre.err = "ok"
        /\ ret'.pre.val + ret'.arg < 0)
       => (ret'.err = "InsufficientBalance" /\ View' = View /\ TxOpen(Cur)' = TxOpen(Cur))]_vars

C8_Witness ==
  /\ ret.op = "UpdateBalance"
  /\ ret.err = "InsufficientBalance"
  /\ TxOpen(Cur)
  /\ ret.pre.val + ret.arg < 0

\* The calls other than Initialize and Close.
GuardedOps == TxOps \cup {"BeginTransaction", "Commit", "Rollback"}

(* C9: on a store that is not initialized, GetAccount, AccountExists,
   GetBalance, GetAllAccounts, CreateAccount, UpdateBalance, BeginTransaction,
   Commit and Rollback return NotInitialized and change no field. *)
C9_NotInitialized ==
  [][(~initialized /\ ret'.op \in GuardedOps)
       => (ret'.err = "NotInitialized" /\ UNCHANGED storeVars)]_vars

C9_Witness ==
  /\ ~initialized
  /\ db # EmptyMap
  /\ ret.op = "UpdateBalance"
  /\ ret.err = "NotInitialized"

(* C10: Initialize on an initialized store fails with AlreadyInitialized and
   leaves the accounts and the open overlay as they were; Close on a store
   that is not initialized fails with NotInitialized; the Initialize that
   follows a successful Close succeeds. *)
C10_Lifecycle ==
  [][/\ (ret'.op = "Initialize" /\ initialized)
          => (ret'.err = "AlreadyInitialized" /\ UNCHANGED storeVars)
     /\ (ret'.op = "Close" /\ ~initialized) => ret'.err = "NotInitialized"
     /\ (ret'.op = "Initialize" /\ ret.op = "Close" /\ ret.err = "ok") => ret'.err = "ok"]_vars

C10_Witness ==
  /\ ret.op = "Initialize"
  /\ ret.err = "AlreadyInitialized"
  /\ TxOpen(Cur)
  /\ (txAccounts # EmptyMap \/ tx.rows # EmptyMap)

(* C11: on an initialized store with no transaction open, Commit and Rollback
   return no error and change nothing of the store: every account and the
   absence of a transaction stay as they were, so that any run of such calls,
   in any order, is a run of successful no-ops. *)
C11_CommitRollbackNoOps ==
  [][(initialized /\ ~TxOpen(Cur) /\ ret'.op \in {"Commit", "Rollback"})
       => (ret'.err = "ok" /\ UNCHANGED storeVars /\ View' = View)]_vars

\* A Rollback with no transaction open follows calls that left accounts in
\* the store.
C11_Witness ==
  /\ initialized
  /\ ret.op = "Rollback"
  /\ ~ret.open
  /\ ret.err = "ok"
  /\ ~TxOpen(Cur)
  /\ Base(Cur) # EmptyMap

(* C12: MemoryStorage.Commit with a transaction open returns no error,
   leaves no transaction open and an empty overlay, gives the base every
   entry of the overlay and keeps the base's entry of every id the overlay
   does not hold; what a caller observes of every id (existence and balance)
   is after Commit, outside the transaction, what it was inside the
   transaction just before. *)
C12_CommitAppliesOverlay ==
  [][(backend = "memory" /\ initialized /\ inTx /\ ret'.op = "Commit")
       => /\ ret'.err = "ok"
          /\ ~inTx'
          /\ txAccounts' = EmptyMap
          /\ View' = View
          /\ \A id \in Ids :
               IF Has(txAccounts, id)
                 THEN Has(accounts', id) /\ accounts'[id] = txAccounts[id]
                 ELSE /\ Has(accounts', id) = Has(accounts, id)
                      /\ Has(accounts, id) => accounts'[id] = accounts[id]]_vars

\* A Commit ended a transaction in which a write succeeded; the base holds
\* two accounts with different balances.
C12_Witness ==
  /\ backend = "memory"
  /\ ret.op = "Commit"
  /\ ret.open
  /\ ret.err = "ok"
  /\ txBase.phase = "committed"
  /\ txBase.dirty
  /\ \A id \in Ids : Has(accounts, id)
  /\ accounts[1] # accounts[2]

\* MemoryStorage: Commit, then BeginTransaction on the store Commit left.
MemCommitThenBegin(s) == MemBeginTransaction(MemCommit(s))

(* C13: in MemoryStorage, BeginTransaction called while a transaction is
   open leaves the store as Commit followed by BeginTransaction would: every
   entry of the first overlay is in the base, the overlay is empty, one
   transaction is open; and a Rollback that ends the transaction so opened
   leaves the base as that BeginTransaction left it, first overlay included. *)
C13_NestedBeginCommits ==
  /\ [][(backend = "memory" /\ initialized /\ inTx /\ ret'.op = "BeginTransaction")
          => /\ ret'.err = MemCommitThenBegin(Cur).err
             /\ ret'.err = "ok"
             /\ accounts' = MemCommitThenBegin(Cur).accounts
             /\ txAccounts' = MemCommitThenBegin(Cur).txAccounts
             /\ inTx' = MemCommitThenBegin(Cur).inTx
             /\ initialized' = MemCommitThenBegin(Cur).initialized
             /\ \A id \in DOMAIN txAccounts : Has(accounts', id) /\ accounts'[id] = txAccounts[id]
             /\ txAccounts' = EmptyMap
             /\ inTx']_vars
  /\ []((backend = "memory" /\ txBase.phase = "rolledback" /\ txBase.nested)
          => accounts = txBase.base)

\* A BeginTransaction inside a transaction moved staged entries into the
\* base; writes followed, a Rollback ended them and the base holds accounts.
C13_Witness ==
  /\ backend = "memory"
  /\ txBase.phase = "rolledback"
  /\ txBase.nested
  /\ txBase.changed
  /\ txBase.dirty
  /\ accounts # EmptyMap

(* C14: MemoryStorage.GetAllAccounts with a transaction open returns one
   entry for each id that the base or the overlay holds and none for any
   other id, the entry's balance being the overlay's when the overlay holds
   the id and the base's otherwise; the call changes neither the base nor the
   overlay. *)
C14_GetAllAccountsMerges ==
  [][(backend = "memory" /\ initialized /\ inTx /\ ret'.op = "GetAllAccounts")
       => /\ ret'.err = "ok"
          /\ Cardinality(ret'.all) = Cardinality(DOMAIN accounts \cup DOMAIN txAccounts)
          /\ \A e \in ret'.all :
               /\ e[1] \in DOMAIN accounts \cup DOMAIN txAccounts
               /\ e[2] = IF Has(txAccounts, e[1]) THEN txAccounts[e[1]] ELSE accounts[e[1]]
          /\ \A id \in DOMAIN accounts \cup DOMAIN txAccounts : \E e \in ret'.all : e[1] = id
          /\ UNCHANGED <<accounts, txAccounts, inTx, initialized>>]_vars

\* GetAllAccounts returned inside a transaction in which one id is in the
\* base and in the overlay with different balances, the other in the base
\* only.
C14_Witness ==
  /\ backend = "memory"
  /\ ret.op = "GetAllAccounts"
  /\ ret.err = "ok"
  /\ inTx
  /\ Cardinality(ret.all) = 2
  /\ \E id \in Ids :
       /\ Has(accounts, id) /\ Has(txAccounts, id) /\ accounts[id] # txAccounts[id]
       /\ \E other \in Ids \ {id} : Has(accounts, other) /\ ~Has(txAccounts, other)

(* C15: pre-validation does not change state.  Whatever the batch, valid or
   not, a CheckTx call, which is a ValidateTransaction call, leaves the set
   of account ids and the balance of every account as they were. *)
C15_CheckTxChangesNothing ==
  [][txResult'.op = "CheckTx" => Accounts' = Accounts]_vars

\* The operations of batch that fail a check of ValidateOperation (ids,
\* amount, signature presence, key registration, signature validity,
\* balance) in the state the request finds, by position.
FailingOps(keys, accs, batch) ==
  {i \in 1 .. Len(batch) : ValidateOperation(keys, accs, batch[i]).err # "ok"}

\* The first of them, in batch order.
FirstFailing(keys, accs, batch) ==
  CHOOSE i \in FailingOps(keys, accs, batch) :
    \A j \in FailingOps(keys, accs, batch) : i <= j

(* C18: a batch that processTx rejects because one of its operations fails a
   check is reported with the index of the first operation, in batch order,
   that fails a check, and with the reason that operation fails; a batch that
   processTx applies is reported with the number of its operations. *)
C18_ReportsFirstFailing ==
  [][txResult'.op = "processTx"
       => IF txResult'.err = "ok"
            THEN txResult'.count = Len(reqTx')
            ELSE FailingOps(userKeys, Accounts, reqTx') # {}
                   => /\ txResult'.idx = FirstFailing(userKeys, Accounts, reqTx') - 1
                      /\ txResult'.err =
                           ValidateOperation(userKeys, Accounts,
                                             reqTx'[FirstFailing(userKeys, Accounts, reqTx')]).err]_vars

\* The operation is well formed, its sender has registered a key, and the
\* signature does not verify under that key.
SignatureInvalid(keys, op) ==
  /\ BasicValidateOperation(op) = "ok"
  /\ Has(keys, op.From)
  /\ ~VerifySignature(keys[op.From], op.Signature)

\* The batch holds an operation whose signature is invalid.
HasInvalidSignature(keys, batch) ==
  \E i \in 1 .. Len(batch) : SignatureInvalid(keys, batch[i])

\* The operations of batch that pass every check in the state the request
\* finds, in batch order.
PassingOps(keys, accs, batch) ==
  LET Passes(op) == ValidateOperation(keys, accs, op).err = "ok"
  IN SelectSeq(batch, Passes)

\* Applying the operations of batch one after the other takes no account
\* below zero and none above the largest int.
Appliable(accs, batch) == ApplyFrom(accs, batch, 1).err = "ok"

(* C19, as claimed: when a batch holds an operation whose signature is
   invalid, only that operation is rejected: the operations of the batch
   that pass every check are applied, each account's balance changing by
   what they send to it less what they take from it. *)
C19_OnlyInvalidOperationRejected ==
  [][(/\ txResult'.op = "processTx"
      /\ HasInvalidSignature(userKeys, reqTx')
      /\ Appliable(Accounts, PassingOps(userKeys, Accounts, reqTx')))
       => \A id \in Ids :
            Balance(id)' = Balance(id) + Net(PassingOps(userKeys, Accounts, reqTx'), id)]_vars

(* C19, amended: when a batch holds an operation whose signature is invalid,
   the whole batch is rejected: processTx reports an error and no operation
   of the batch is applied, every balance staying what it was. *)
C19_InvalidSignatureRejectsBatch ==
  [][(txResult'.op = "processTx" /\ HasInvalidSignature(userKeys, reqTx'))
       => (txResult'.err # "ok" /\ txResult'.count = 0 - 1 /\ Balances' = Balances)]_vars

\* A batch of two operations was rejected for the invalid signature of its
\* second operation; its first operation passes every check and moves money
\* the sender has.
C19_Witness ==
  /\ txResult.op = "processTx"
  /\ txResult.err = "invalid signature"
  /\ txResult.idx = 1
  /\ Len(reqTx) = 2
  /\ SignatureInvalid(userKeys, reqTx[2])
  /\ ValidateOperation(userKeys, Accounts, reqTx[1]).err = "ok"
  /\ reqTx[1].From # reqTx[1].To

\* The operation has positive ids, a positive amount and a signature.
WellFormed(op) == op.From > 0 /\ op.To > 0 /\ op.Amount > 0 /\ op.Signature # 0

(* C20: Transaction.Validate accepts a batch if and only if the batch holds
   at least one operation and every operation has From > 0, To > 0,
   Amount > 0 and a signature that is not empty; when it rejects a batch
   that holds operations, it names the lowest index of an operation that
   breaks one of these rules. *)
C20_ValidateIff ==
  txResult.op = "Validate"
    => /\ txResult.err = "ok"
            <=> (Len(reqTx) >= 1 /\ \A i \in 1 .. Len(reqTx) : WellFormed(reqTx[i]))
       /\ (txResult.err # "ok" /\ Len(reqTx) >= 1)
            => /\ txResult.idx + 1 \in 1 .. Len(reqTx)
               /\ ~WellFormed(reqTx[txResult.idx + 1])
               /\ \A j \in 1 .. txResult.idx : WellFormed(reqTx[j])

\* Validate rejected a batch of two operations for its second operation, the
\* first being well formed.
C20_Witness ==
  /\ txResult.op = "Validate"
  /\ txResult.err = "invalid amount"
  /\ txResult.idx = 1
  /\ Len(reqTx) = 2
  /\ WellFormed(reqTx[1])
  /\ reqTx[2].Amount = 0

(* C16: no lost update in MemoryStorage.  When two concurrent callers have
   called UpdateBalance(id, d1) and UpdateBalance(id, d2) on an account the
   store held and both calls have returned success, the balance of the
   account is the balance it had plus d1 plus d2, however the two calls
   interleaved. *)
C16_NoLostUpdate ==
  \A id \in Ids :
    (/\ \A c \in Callers :
          callers[c].pc = "done" /\ callers[c].err = "ok" /\ callers[c].id = id
     /\ Has(startAccounts, id))
      => Observe(Cur, id).val = startAccounts[id] + callers[1].delta + callers[2].delta

(* C17: no call suspends for good.  With the backend service answering, every
   CreateAccount call on an initialized store, and every UpdateBalance call
   that creates the account through it, returns to its caller: after such a
   call no caller is left waiting for the adapter's own reader-writer
   lock. *)
C17_EveryCallReturns ==
  ret.op \in {"CreateAccount", "UpdateBalance"} => (~blocked /\ ret.err # "blocked")

(* C21: serialization round trip.  For every transaction, parsing the bytes
   Serialize returned succeeds and yields a transaction with the same number
   of operations in the same order, each with the same From, To, Amount and
   Signature. *)
C21_RoundTrip ==
  wire.pc = "parsed"
    => /\ wire.err = "ok"
       /\ Len(wire.parsed.Operations) = Len(wire.tx.Operations)
       /\ \A i \in 1 .. Len(wire.tx.Operations) :
            /\ wire.parsed.Operations[i].From = wire.tx.Operations[i].From
            /\ wire.parsed.Operations[i].To = wire.tx.Operations[i].To
            /\ wire.parsed.Operations[i].Amount = wire.tx.Operations[i].Amount
            /\ wire.parsed.Operations[i].Signature = wire.tx.Operations[i].Signature

\* A batch of two different operations, one with a negative field and one
\* whose signature needs escaping, came back from ParseTransaction.
C21_Witness ==
  /\ wire.pc = "parsed"
  /\ Len(wire.tx.Operations) = 2
  /\ wire.tx.Operations[1].From < 0
  /\ wire.tx.Operations[2].Signature = <<"\\", "<">>
  /\ wire.data.operations[2].signature # <<"\"", "\\", "<", "\"">>

\* The operation whose signing data was made.
SignedOp == wire.tx.Operations[wire.op]

(* C22: the signing data of an operation depends on From, To and Amount
   only.  It is the data of every operation with the same three fields,
   whatever the signature; it decodes to the operation's From, To and
   Amount; and no operation that differs in one of the three fields has the
   same data. *)
C22_SigningDataOfFields ==
  wire.pc = "signing"
    => /\ \A f \in WireInts, t \in WireInts, a \in WireInts, s \in WireSignatures :
            (GetDataForSigning(Op(f, t, a, s)) = wire.signing)
              <=> (f = SignedOp.From /\ t = SignedOp.To /\ a = SignedOp.Amount)
       /\ IsNumber(wire.signing.from) /\ ParseInt(wire.signing.from) = SignedOp.From
       /\ IsNumber(wire.signing.to) /\ ParseInt(wire.signing.to) = SignedOp.To
       /\ IsNumber(wire.signing.amount) /\ ParseInt(wire.signing.amount) = SignedOp.Amount

\* The signing data of a signed operation with a negative sender was made.
C22_Witness ==
  /\ wire.pc = "signing"
  /\ SignedOp.Signature = <<"A", "=">>
  /\ SignedOp.From < 0
  /\ wire.signing.from = <<"-", "1", "2">>

(* C23: what a transaction has staged is invisible to other callers until
   Commit.  While caller 1 has a transaction open in which a CreateAccount
   or UpdateBalance succeeded, a GetBalance, AccountExists or GetAllAccounts
   call of caller 2 returns what the committed base holds. *)
C23_StagedInvisible ==
  (callers[2].pc = "called" /\ ret.open /\ txBase.phase = "open" /\ txBase.dirty)
    => /\ ret.op = "GetBalance"
            => IF Has(accounts, ret.id)
                 THEN ret.err = "ok" /\ ret.val = accounts[ret.id]
                 ELSE ret.err = "AccountNotFound"
       /\ ret.op = "AccountExists" => (ret.found <=> Has(accounts, ret.id))
       /\ ret.op = "GetAllAccounts" => ret.all = Entries(accounts)

(* C24: lock discipline.  No caller writes store state (the base or overlay
   map, an account's balance, the transaction flag) in a step in which it
   does not hold the exclusive lock: not GetAccount under the shared lock,
   not UpdateBalance with no lock. *)
C24_WritesUnderExclusiveLock ==
  \A c \in Callers : callers[c].wrote => callers[c].lock = "write"

\* The balance the base of the store holds for id: the entry of accounts,
\* and with Redis the server's key when the cache has no entry.
BaseBalance(id) == IF Has(accounts, id) THEN accounts[id] ELSE remote[id]

(* C25: copy on first access.  In the memory and Redis adapters, while a
   transaction is open, a GetAccount of an account the overlay does not hold
   and the base does puts into the overlay an entry with the base's balance
   and returns that entry, an object of the overlay and not the base's; a
   GetAccount or UpdateBalance of an id the overlay holds reads and writes
   the overlay's entry; and no GetAccount or UpdateBalance made in the
   transaction changes the balance of an entry of the base. *)
C25_CopyOnFirstAccess ==
  [][(/\ backend \in {"memory", "redis"}
      /\ ret'.op \in {"GetAccount", "UpdateBalance"}
      /\ ret'.err = "ok"
      /\ inTx /\ inTx')
       => LET id == ret'.id
          IN /\ (ret'.op = "GetAccount" /\ ~Has(txAccounts, id))
                  => /\ txAccounts' = Put(txAccounts, id, BaseBalance(id))
                     /\ ret'.val = BaseBalance(id)
                     /\ StorageGetAccount(Cur, id).ref = "tx"
             /\ (ret'.op = "GetAccount" /\ Has(txAccounts, id))
                  => /\ txAccounts' = txAccounts
                     /\ ret'.val = txAccounts[id]
                     /\ StorageGetAccount(Cur, id).ref = "tx"
             /\ (ret'.op = "UpdateBalance" /\ Has(txAccounts, id))
                  => txAccounts' = Put(txAccounts, id, txAccounts[id] + ret'.arg)
             /\ \A k \in DOMAIN accounts : Has(accounts', k) /\ accounts'[k] = accounts[k]
             /\ remote' = remote]_vars

\* In an open transaction an UpdateBalance changed the overlay's copy of an
\* account the base holds with another balance.
C25_Witness ==
  /\ ret.op = "UpdateBalance"
  /\ ret.err = "ok"
  /\ ret.arg # 0
  /\ ret.open
  /\ inTx
  /\ Has(accounts, ret.id)
  /\ Has(txAccounts, ret.id)
  /\ txAccounts[ret.id] = accounts[ret.id] + ret.arg

(* C26: an Account handed out by MemoryStorage.GetAccount or GetAllAccounts
   is not shared with the store.  When the caller assigns to the Balance
   field of the object it was handed, with or without a transaction open,
   what GetBalance and AccountExists report of every account, and the
   committed base, stay as they were. *)
C26_ReturnedObjectsNotShared ==
  [][(callers[2].pc = "holds" /\ callers'[2].pc = "mutated")
       => (View' = View /\ accounts' = accounts)]_vars

(* C27: Close during an open transaction discards the overlay without
   applying it.  In the SQLite and Redis adapters: a BeginTransaction issued
   with no transaction open and the calls staged in the transaction leave
   persistent storage (the database file, the server's keys) as it is; Close
   with the transaction open succeeds, leaves persistent storage as it is
   and keeps nothing staged; and the Initialize that follows finds that
   persistent storage, with no transaction open.  So after Close and
   Initialize every account in persistent storage has the value it had
   before BeginTransaction and no account staged in the transaction is
   there. *)
C27_CloseDiscardsOverlay ==
  [][(backend \in {"sqlite", "redis"})
       => (/\ (ret'.op = "BeginTransaction" /\ ~TxOpen(Cur) /\ ret'.err = "ok")
                => (Base(Cur)' = Base(Cur) /\ TxOpen(Cur)')
           /\ (ret'.op \in TxOps /\ TxOpen(Cur) /\ ret' # ret)
                => (Base(Cur)' = Base(Cur))
           /\ (ret'.op = "Close" /\ TxOpen(Cur))
                => (/\ ret'.err = "ok"
                    /\ Base(Cur)' = Base(Cur)
                    /\ ~initialized'
                    /\ ~TxOpen(Cur)'
                    /\ txAccounts' = EmptyMap
                    /\ tx' = NoTx)
           /\ (ret.op = "Close" /\ ret.open /\ ret'.op = "Initialize")
                => (/\ ret'.err = "ok"
                    /\ Base(Cur)' = Base(Cur)
                    /\ ~TxOpen(Cur)'
                    /\ txAccounts' = EmptyMap
                    /\ tx' = NoTx
                    /\ (backend = "sqlite")
                         => (\A id \in Ids :
                               /\ (View'[id].found <=> Has(db, id))
                               /\ (Has(db, id) => (View'[id].val = db[id])))))]_vars

\* A SQLite store whose file holds an account was closed with a transaction
\* open.
C27_Witness ==
  /\ backend = "sqlite"
  /\ ret.op = "Close"
  /\ ret.err = "ok"
  /\ ret.open
  /\ db # EmptyMap
  /\ ~initialized
  /\ ~tx.active

(* C28: in the Redis adapter a BeginTransaction called while a transaction
   is open commits the first overlay with the persistent effect of Commit:
   after the call the server holds, for every account of that overlay, the
   overlay's balance, as it would after Commit. *)
C28_NestedBeginPersists ==
  [][(backend = "redis" /\ initialized /\ inTx
        /\ ret'.op = "BeginTransaction" /\ ret'.err = "ok")
       => (/\ \A id \in DOMAIN txAccounts : Has(remote', id) /\ remote'[id] = txAccounts[id]
           /\ remote' = RedisCommit(Cur).remote)]_vars

(* C29: in the TigerBeetle adapter the balance does not drift from the
   ledger.  Whenever no transaction is open, GetBalance(id) is the ledger's
   credits posted less debits posted of every account it answers for. *)
C29_NoDriftFromLedger ==
  (backend = "tigerbeetle" /\ initialized /\ ~inTx /\ ~blocked)
    => \A id \in Ids :
         LET g == TbGetBalance(Cur, id)
         IN g.err = "ok" => (Has(remote, id) /\ g.val = remote[id])

(* C30: in the Redis and TigerBeetle adapters GetAllAccounts agrees with
   the single-account reads in every reachable state, with or without a
   transaction open: it returns an entry (id, b) exactly for the ids for
   which AccountExists(id) is true, and b is what GetBalance(id) returns. *)
C30_GetAllAgreesWithSingleReads ==
  (backend \in {"redis", "tigerbeetle"} /\ initialized /\ ~blocked)
    => StorageGetAllAccounts(Cur).all
         = Entries([id \in {i \in Ids : StorageAccountExists(Cur, i).found} |->
                      StorageGetBalance(Cur, id).val])

(* C31: ValidateTransaction checks the amount of each operation against the
   balance the sender has before the batch, operation by operation, and
   accumulates no debit of an earlier operation of the batch.  A batch
   passes exactly when each of its operations, validated as a batch of its
   own in the state the request finds, passes; and an operation rejected
   for its balance asks for more than its sender has before the batch. *)
C31_ValidatesEachOperationAlone ==
  [][txResult'.op = "CheckTx"
       => /\ txResult'.err = "ok"
               <=> /\ Len(reqTx') >= 1
                   /\ \A k \in 1 .. Len(reqTx') :
                        ValidateTransaction(userKeys, Accounts, <<reqTx'[k]>>).err = "ok"
          /\ txResult'.err = "insufficient balance"
               => LET op == reqTx'[txResult'.idx + 1]
                  IN op.Amount > (IF Has(Accounts, op.From) THEN Accounts[op.From] ELSE 0)]_vars

\* A batch of two operations passed validation although its sender cannot
\* pay both: each amount is within the balance, their sum is not.
C31_Witness ==
  /\ txResult.op = "CheckTx"
  /\ txResult.err = "ok"
  /\ Len(reqTx) = 2
  /\ reqTx[1].From = reqTx[2].From
  /\ reqTx[1].From # reqTx[1].To
  /\ reqTx[2].From # reqTx[2].To
  /\ reqTx[1].Amount <= Accounts[reqTx[1].From]
  /\ reqTx[2].Amount <= Accounts[reqTx[1].From]
  /\ reqTx[1].Amount + reqTx[2].Amount > Accounts[reqTx[1].From]

\* The sum of the balances of the accounts in m.
RECURSIVE Total(_)
Total(m) ==
  IF DOMAIN m = {} THEN 0
  ELSE LET k == CHOOSE x \in DOMAIN m : TRUE
       IN m[k] + Total([x \in DOMAIN m \ {k} |-> m[x]])

(* C34: conservation.  The sum of all account balances is the same before
   and after every ProcessTransaction call: when the batch is applied, when
   validation rejects it, and when the debit or the credit of one of its
   operations fails. *)
C34_Conservation ==
  [][txResult'.op = "ProcessTransaction" => Total(Accounts') = Total(Accounts)]_vars

\* A batch failed at the credit of its second operation after its first
\* operation was applied: balances moved and the second debit was given back.
C34_Witness ==
  /\ txResult.op = "ProcessTransaction"
  /\ txResult.err = "failed to add to recipient"
  /\ txResult.idx = 1
  /\ \E id \in DOMAIN Accounts : Accounts[id] = MaxInt

(* C35: a State.UpdateBalance, or StateStore.UpdateBalance, that fails
   because balance + delta < 0 leaves the state unchanged, also when the
   account did not exist before the call: a failed update creates no
   account. *)
C35_FailedUpdateNoEffect ==
  [][(txResult'.op = "StateStore.UpdateBalance" /\ txResult'.err # "ok")
       => Accounts' = Accounts]_vars

(* C38: after Close followed by Initialize on a MemoryStorage no transaction
   is open, whatever the state was before Close, a transaction open at
   Close time included: the Initialize that follows a successful Close
   leaves no transaction open, and a CreateAccount issued right after that
   Initialize puts the account into the base, where a Rollback leaves it. *)
C38_ReinitializeClosesTransaction ==
  [][/\ (backend = "memory" /\ ret.op = "Close" /\ ret.err = "ok"
           /\ ret'.op = "Initialize" /\ ret'.err = "ok")
          => ~inTx'
     /\ (backend = "memory" /\ ret.op = "Initialize" /\ ret.err = "ok"
           /\ ret'.op = "CreateAccount" /\ ret'.err = "ok")
          => (/\ Has(accounts', ret'.id)
              /\ Has(MemRollback(Cur').accounts, ret'.id))]_vars

\* What the store's caller would observe of account id after a Rollback.
RolledBack(id) == Observe(StorageRollback(Cur), id)

(* C36: in RedisStorage, when Commit fails while executing the pipeline, the
   transaction stays open with its overlay, and a following Rollback returns
   the store's view to the state before the transaction: for every account,
   what a Rollback leaves to be read is after the failed Commit what it was
   before it, the overlay never having touched it. *)
C36_FailedCommitThenRollback ==
  [][(backend = "redis" /\ ret'.op = "Commit" /\ ret'.err = "WriteFailed")
       => (/\ inTx' /\ txAccounts' = txAccounts
           /\ \A id \in Ids : RolledBack(id)' = RolledBack(id))]_vars

(* C37: outside a transaction, when RedisStorage.UpdateBalance or
   TigerBeetleStorage.UpdateBalance returns an error because the write to
   the backend (SET, transfer) failed, the store's view is unchanged:
   GetBalance(id) returns afterwards the balance it returned before the
   failed call. *)
C37_FailedWriteNoEffect ==
  [][(ret'.op = "UpdateBalance" /\ ret'.err = "WriteFailed")
       => Observe(Cur, ret.id)' = ret'.pre]_vars

(* C39: every transfer the TigerBeetle adapter submits carries a transfer ID
   different from that of every transfer it submitted before: two
   successive successful UpdateBalance calls outside a transaction, each of
   which submits one transfer, submit transfers with different IDs. *)
C39_TransferIdsUnique ==
  [][(/\ backend = "tigerbeetle"
      /\ ret.op = "UpdateBalance" /\ ret.err = "ok" /\ ~ret.open
      /\ ret'.op = "UpdateBalance" /\ ret'.err = "ok" /\ ~ret'.open)
       => TransferID(ret'.id) # TransferID(ret.id)]_vars

(* C40: in TigerBeetleStorage, when Commit fails partway through the overlay
   and is called again, the entries the failed attempt applied are not
   submitted a second time: the retry leaves in the ledger what one Commit
   without a failure would have left, and ends with the transaction closed
   and the overlay empty. *)
C40_RetrySubmitsNothingTwice ==
  [][(backend = "tigerbeetle" /\ ret'.op = "Commit" /\ ret'.err = "WriteFailed")
       => (/\ TbCommit(Cur).remote' = TbCommit(Cur).remote
           /\ TbCommit(Cur).accounts' = TbCommit(Cur).accounts
           /\ TbCommit(Cur).err' = "ok"
           /\ ~TbCommit(Cur).inTx'
           /\ TbCommit(Cur).txAccounts' = EmptyMap)]_vars

\* A Commit failed after it had applied the transfer of one overlay entry,
\* another entry still waiting to be submitted.
C40_Witness ==
  /\ backend = "tigerbeetle"
  /\ ret.op = "Commit"
  /\ ret.err = "WriteFailed"
  /\ inTx
  /\ \E id \in DOMAIN txAccounts :
       /\ Has(accounts, id)
       /\ accounts[id] = txAccounts[id]
       /\ remote[id] > MaxBal
  /\ \E e \in DOMAIN txAccounts : TbSubmits(Cur, e)

(* C32: in the batch loop of the benchmark driver each batch is atomic.  If
   an UpdateBalance of a batch fails and the driver calls Rollback, no
   balance change of that batch reaches the committed base, neither from
   the transfers before the failure nor from those after it: from the
   failure to the next batch the file holds what it held when the batch
   began. *)
C32_BatchAtomic ==
  Driver.failed => Committed = Driver.base

(* C33: the benchmark driver never calls BeginTransaction while a
   transaction is still open on the store, also after BeginTransaction,
   UpdateBalance or Commit returned an error. *)
C33_NoBeginWhileOpen ==
  ret.op = "BeginTransaction" => ~ret.open

====
